---------------------------- MODULE Spec2Model ----------------------------
(***************************************************************************)
(* A model of cnotch/xlog: the Builder's fixed-format appenders            *)
(* (AppendTime, AppendDuration), the Field/Entry encoders, the cores       *)
(* (ioCore, multiCore, NewTee) and the Logger facade that drives them.     *)
(*                                                                         *)
(* Bytes are modelled as one-character strings (and, for the encoders, as  *)
(* short string tokens); a buffer is a sequence of them.  A uint64 is a    *)
(* little-endian sequence of decimal digits without leading zeros, so the  *)
(* full 64-bit width is kept although TLC's integers are 32 bits wide.     *)
(***************************************************************************)
EXTENDS Integers, Sequences, FiniteSets, TLC

VARIABLES
    logger,   \* the Logger: its core (nopCore, ioCore or multiCore), name, context
    call,     \* the operation in progress or last performed, with its arguments
    ret,      \* what the operation returned: its error, or the bytes it appended
    sinks,    \* per sink: the bytes it received and the flush hook invocations
    trace,    \* the child calls a multiCore made, in order
    pool,     \* builderPool: the Builders that are free, and how many were made
    builders, \* per Builder: the bytes of its buf
    threads,  \* per goroutine: its operation, its position in it, its Builder
    lock,     \* the lockedWriter: the writer it wraps and who holds its mutex
    loggers,  \* the Loggers made by New and With, in the order they were made
    arrays,   \* the backing arrays of the Loggers' ctx slices
    globalL,  \* the global Logger, as the number of a Logger
    mw        \* the multiWriter: its writers and their flush hooks

vars ==
    <<logger, call, ret, sinks, trace, pool, builders, threads, lock, loggers, arrays, globalL,
      mw>>

concVars == <<pool, builders, threads, lock>>

withVars == <<loggers, arrays, globalL, mw>>

\* a single Logger, whose fields are in the variable logger
NoLoggers == loggers = <<>> /\ arrays = <<>> /\ globalL = 0 /\ mw = <<>>

\* No goroutine besides the caller: the sequential specifications leave the
\* pool, the Builders and the mutex out of the picture.
NoThreads ==
    /\ pool = [free |-> {}, made |-> 0]
    /\ builders = <<>>
    /\ threads = <<>>
    /\ lock = [holder |-> 0]

---------------------------------------------------------------------------
(* Go integer arithmetic: division truncates toward zero.                  *)

GoDiv(a, b) == IF a >= 0 THEN a \div b ELSE -((-a) \div b)

GoMod(a, b) == a - b * GoDiv(a, b)

(* flag&bit != 0 for a single-bit constant.                                *)
HasBit(flag, bit) == (flag \div bit) % 2 = 1

---------------------------------------------------------------------------
(* uint64 values as little-endian decimal digit sequences.                 *)

RECURSIVE NatToDigits(_)
NatToDigits(n) == IF n = 0 THEN <<>> ELSE <<n % 10>> \o NatToDigits(n \div 10)

\* 2^64 = 18446744073709551616, least significant digit first
TwoTo64 == <<6,1,6,1,5,5,9,0,7,3,7,0,4,4,7,6,4,4,8,1>>

DigitAt(ds, k) == IF k <= Len(ds) THEN ds[k] ELSE 0

RECURSIVE StripZeros(_)
StripZeros(ds) ==
    IF ds = <<>> THEN <<>>
    ELSE IF ds[Len(ds)] = 0 THEN StripZeros(SubSeq(ds, 1, Len(ds) - 1))
    ELSE ds

\* a - b for a >= b, digit by digit with a borrow
RECURSIVE BigSubFrom(_, _, _, _)
BigSubFrom(a, b, k, borrow) ==
    IF k > Len(a) THEN <<>>
    ELSE LET d == a[k] - DigitAt(b, k) - borrow
         IN  IF d < 0
             THEN <<d + 10>> \o BigSubFrom(a, b, k + 1, 1)
             ELSE <<d>> \o BigSubFrom(a, b, k + 1, 0)

BigSub(a, b) == StripZeros(BigSubFrom(a, b, 1, 0))

\* the conversion uint64(x) of a signed value x: x mod 2^64
Uint64(x) == IF x >= 0 THEN NatToDigits(x) ELSE BigSub(TwoTo64, NatToDigits(-x))

\* the unary minus of a uint64: (2^64 - u) mod 2^64
NegU64(u) == IF u = <<>> THEN <<>> ELSE BigSub(TwoTo64, u)

\* long division of a digit sequence by a small divisor m (most significant
\* digit first): <<quotient digits, most significant first, remainder>>
RECURSIVE DivSmallFrom(_, _, _, _)
DivSmallFrom(ds, m, k, rem) ==
    IF k = 0 THEN [q |-> <<>>, r |-> rem]
    ELSE LET cur  == rem * 10 + ds[k]
             rest == DivSmallFrom(ds, m, k - 1, cur % m)
         IN  [q |-> rest.q \o <<cur \div m>>, r |-> rest.r]

U64Div(u, m) == StripZeros(DivSmallFrom(u, m, Len(u), 0).q)

U64Mod(u, m) == DivSmallFrom(u, m, Len(u), 0).r

\* u < 10^k
U64Below10Pow(u, k) == Len(u) <= k

---------------------------------------------------------------------------
(* The scratch buffers of AppendTime and AppendDuration are filled from    *)
(* the end: every write is "w--; buf[w] = c".  A scratch state holds the   *)
(* bytes buf[w:] written so far; a write with w = 0 indexes buf[-1] and    *)
(* panics, which happens exactly when a run of writes needs more room than *)
(* the w bytes left in front.                                              *)

TimeBufLen == 40

DurationBufLen == 32

DigitChars == <<"0", "1", "2", "3", "4", "5", "6", "7", "8", "9">>

DigitChar(d) == DigitChars[d + 1]

NewScratch(cap) == [s |-> <<>>, cap |-> cap, panic |-> FALSE]

\* the writes "w--; buf[w] = c" for the bytes of cs, last byte first
PutChars(st, cs) ==
    IF st.panic \/ Len(st.s) + Len(cs) > st.cap
    THEN [st EXCEPT !.panic = TRUE]
    ELSE [st EXCEPT !.s = cs \o st.s]

PutFront(st, c) == PutChars(st, <<c>>)

\* the digits fmtInt writes: those of i, zero-padded to wid
RECURSIVE IntChars(_, _)
IntChars(i, wid) ==
    IF Len(i) >= 2 \/ wid > 1
    THEN IntChars(IF i = <<>> THEN <<>> ELSE Tail(i), wid - 1) \o <<DigitChar(DigitAt(i, 1))>>
    ELSE <<DigitChar(DigitAt(i, 1))>>

\* fmtInt: decimal digits of i, zero-padded to wid, written before buf[w:]
fmtInt(st, i, wid) == PutChars(st, IntChars(i, wid))

\* the digits fmtFrac writes for the low prec digits of v: none while only
\* zeros were seen from the right
RECURSIVE FracChars(_, _, _)
FracChars(v, prec, print) ==
    IF prec = 0 THEN <<>>
    ELSE LET digit == DigitAt(v, 1)
             p     == print \/ digit # 0
         IN  FracChars(IF v = <<>> THEN <<>> ELSE Tail(v), prec - 1, p)
             \o (IF p THEN <<DigitChar(digit)>> ELSE <<>>)

\* fmtFrac: the fraction of v/10^prec without trailing zeros (and without the
\* '.' when the fraction is 0); returns the scratch and v/10^prec
fmtFrac(st, v, prec) ==
    LET cs == FracChars(v, prec, FALSE)
    IN  [st |-> IF cs # <<>> THEN PutChars(st, <<".">> \o cs) ELSE st,
         v  |-> IF Len(v) > prec THEN SubSeq(v, prec + 1, Len(v)) ELSE <<>>]

RECURSIVE TrailingZeros(_)
TrailingZeros(cs) ==
    IF cs # <<>> /\ cs[Len(cs)] = "0"
    THEN 1 + TrailingZeros(SubSeq(cs, 1, Len(cs) - 1))
    ELSE 0

\* fmtNano: '.' and the first wid digits of the 9-digit nanosecond value;
\* with trimZeroSuffix the trailing zeros are cut (after all wid digits were
\* written) and a zero fraction writes nothing
fmtNano(st, nano, wid, trimZeroSuffix) ==
    LET n  == IF Len(nano) > 9 - wid THEN SubSeq(nano, 10 - wid, Len(nano)) ELSE <<>>
        st1 == fmtInt(st, n, wid)
        digits == IntChars(n, wid)
        zeroNum == TrailingZeros(digits)
        st2 == IF trimZeroSuffix /\ ~st1.panic
               THEN [st1 EXCEPT !.s = SubSeq(digits, 1, Len(digits) - zeroNum) \o st.s]
               ELSE st1
    IN  IF n # <<>> \/ ~trimZeroSuffix THEN PutFront(st2, ".") ELSE st

---------------------------------------------------------------------------
(* Builder.AppendTime.  A time is the wall clock of its own location       *)
(* (t.Date(), t.Clock(), t.Nanosecond()) with the zone offset t.Zone().    *)

Tdate == 1
Ttimeprefix == 2
Ttime == 4
Tmilliseconds == 8
Tmicroseconds == 16
Tnanoseconds == 32
TnineFlag == 64
Tzone == 128

Tdatetime == Tdate + Ttime
TdatetimeMilli == Tdate + Ttime + Tmilliseconds
TdatetimeMicro == Tdate + Ttime + Tmicroseconds
TdatetimeNano == Tdate + Ttime + Tnanoseconds
Trfc3339 == Tdate + Ttimeprefix + Ttime + Tzone
Trfc3339Nano == Tdate + Ttimeprefix + Ttime + Tnanoseconds + TnineFlag + Tzone

\* lines 306-326: the zone suffix
AppendTimeZone(st, t, flag) ==
    IF ~HasBit(flag, Tzone) THEN st
    ELSE LET intervalSecond == t.off IN
         IF intervalSecond = 0 THEN PutFront(st, "Z")
         ELSE LET prefix == IF intervalSecond < 0 THEN "-" ELSE "+"
                  hour   == GoDiv(intervalSecond, 3600)
                  min    == GoMod(GoDiv(intervalSecond, 60), 60)
                  s1     == fmtInt(st, Uint64(min), 2)
                  s2     == PutFront(s1, ":")
                  s3     == fmtInt(s2, Uint64(hour), 2)
              IN  PutFront(s3, prefix)

\* lines 328-357: the clock, its fraction and the date/time separator
AppendTimeClock(st, t, flag) ==
    IF ~(HasBit(flag, Ttime) \/ HasBit(flag, Tmilliseconds)
         \/ HasBit(flag, Tmicroseconds) \/ HasBit(flag, Tzone))
    THEN st
    ELSE LET nine == HasBit(flag, TnineFlag)
             s0 == IF HasBit(flag, Tnanoseconds) THEN fmtNano(st, Uint64(t.nsec), 9, nine)
                   ELSE IF HasBit(flag, Tmicroseconds) THEN fmtNano(st, Uint64(t.nsec), 6, nine)
                   ELSE IF HasBit(flag, Tmilliseconds) THEN fmtNano(st, Uint64(t.nsec), 3, nine)
                   ELSE st
             s1 == fmtInt(s0, Uint64(t.sec), 2)
             s2 == PutFront(s1, ":")
             s3 == fmtInt(s2, Uint64(t.min), 2)
             s4 == PutFront(s3, ":")
             s5 == fmtInt(s4, Uint64(t.hour), 2)
         IN  IF HasBit(flag, Tdate)
             THEN PutFront(s5, IF HasBit(flag, Ttimeprefix) THEN "T" ELSE " ")
             ELSE s5

\* lines 359-368: the date
AppendTimeDate(st, t, flag) ==
    IF ~HasBit(flag, Tdate) THEN st
    ELSE LET s1 == fmtInt(st, Uint64(t.day), 2)
             s2 == PutFront(s1, "-")
             s3 == fmtInt(s2, Uint64(t.month), 2)
             s4 == PutFront(s3, "-")
         IN  fmtInt(s4, Uint64(t.year), 4)

\* the scratch buffer of AppendTime just before b.Write(buf[w:])
AppendTimeScratch(t, flag) ==
    AppendTimeDate(AppendTimeClock(AppendTimeZone(NewScratch(TimeBufLen), t, flag), t, flag), t, flag)

\* AppendTime on the buffer b: the bytes are appended unless the scratch
\* buffer was indexed out of range, which panics before b is touched
AppendTime(b, t, flag) ==
    LET st == AppendTimeScratch(t, flag)
    IN  [buf |-> IF st.panic THEN b ELSE b \o st.s, panic |-> st.panic]

---------------------------------------------------------------------------
(* Builder.AppendDuration.  A duration is an int64 given by its sign and   *)
(* the digits of its magnitude.                                            *)

\* uint64(d) for the int64 d
DurationToU64(d) == IF d.neg THEN NegU64(d.mag) ELSE d.mag

AppendDuration(b, d) ==
    LET u0  == DurationToU64(d)
        neg == d.neg
        u   == IF neg THEN NegU64(u0) ELSE u0
        st0 == NewScratch(DurationBufLen)
        sub == \* u < uint64(time.Second)
            LET sS == PutFront(st0, "s")
                zero  == u = <<>>
                nano  == ~zero /\ U64Below10Pow(u, 3)
                micro == ~zero /\ ~nano /\ U64Below10Pow(u, 6)
                prec  == IF zero \/ nano THEN 0 ELSE IF micro THEN 3 ELSE 6
                \* "w--" and then the unit written at buf[w]; for u = 0 the
                \* slot is skipped and keeps the zero byte of the fresh array
                sU == IF zero THEN PutFront(sS, "\\x00")
                      ELSE IF nano THEN PutFront(sS, "n")
                      ELSE IF micro THEN PutFront(PutFront(sS, "\\xb5"), "\\xc2")
                      ELSE PutFront(sS, "m")
                fr == fmtFrac(sU, u, prec)
            IN  [pre |-> IF zero THEN <<"0", "s">> ELSE <<>>,
                 st  |-> fmtInt(fr.st, fr.v, -1)]
        big == \* u >= uint64(time.Second)
            LET sS == PutFront(st0, "s")
                fr == fmtFrac(sS, u, 9)
                s1 == fmtInt(fr.st, Uint64(U64Mod(fr.v, 60)), -1)
                mins == U64Div(fr.v, 60)
                s2 == IF mins # <<>>
                      THEN fmtInt(PutFront(s1, "m"), Uint64(U64Mod(mins, 60)), -1)
                      ELSE s1
                hours == U64Div(mins, 60)
                s3 == IF mins # <<>> /\ hours # <<>>
                      THEN fmtInt(PutFront(s2, "h"), hours, -1)
                      ELSE s2
            IN  [pre |-> <<>>, st |-> s3]
        r   == IF U64Below10Pow(u, 9) THEN sub ELSE big
        st  == IF neg THEN PutFront(r.st, "-") ELSE r.st
    IN  [buf |-> IF st.panic THEN b \o r.pre ELSE b \o r.pre \o st.s, panic |-> st.panic]

---------------------------------------------------------------------------
(* The calls of the Builder's appenders that are explored: the arguments   *)
(* are drawn in the initial state and the appender is applied by a step.   *)

Reverse(sq) == [k \in 1..Len(sq) |-> sq[Len(sq) + 1 - k]]

\* the uint64 written with its decimal digits, most significant first
Dec(ds) == StripZeros(Reverse(ds))

TimeOffsets == {-86400, -34200, -18000, 0, 19800, 86400}

TimeNanos == {0, 1234, 120000000, 123456789, 999999000}

TimeClocks ==
    { [year |-> 0,    month |-> 1,  day |-> 1,  hour |-> 0,  min |-> 0,  sec |-> 0],
      [year |-> 2019, month |-> 1,  day |-> 18, hour |-> 12, min |-> 0,  sec |-> 35],
      [year |-> 9999, month |-> 12, day |-> 31, hour |-> 23, min |-> 59, sec |-> 59] }

Times ==
    { [year |-> c.year, month |-> c.month, day |-> c.day, hour |-> c.hour,
       min |-> c.min, sec |-> c.sec, nsec |-> n, off |-> o] :
      c \in TimeClocks, n \in TimeNanos, o \in TimeOffsets }

TimeFlags == 0..255

DurationMags ==
    { Dec(<<0>>), Dec(<<1>>), Dec(<<9,9,9>>), Dec(<<1,0,0,0>>), Dec(<<1,5,0,0>>),
      Dec(<<9,9,9,9,9,9>>), Dec(<<1,2,3,4,5,6,7>>), Dec(<<1,0,0,0,0,0,0,0,0>>),
      Dec(<<9,9,9,9,9,9,9,9,9>>), Dec(<<1,0,0,0,0,0,0,0,0,0>>),
      Dec(<<1,5,0,0,0,0,0,0,0,0>>), Dec(<<6,0,0,0,0,0,0,0,0,0,0>>),
      Dec(<<3,6,0,0,0,0,0,0,0,0,0,0,0>>), Dec(<<3,6,6,1,0,0,0,0,0,0,0,0,1>>),
      Dec(<<9,1,9,8,9,9,9,3,3,3,4,5,2,2>>),
      Dec(<<9,2,2,3,3,7,2,0,3,6,8,5,4,7,7,5,8,0,7>>),
      Dec(<<9,2,2,3,3,7,2,0,3,6,8,5,4,7,7,5,8,0,8>>) }

\* 2^63, the magnitude of the minimum int64 only
MinInt64Mag == Dec(<<9,2,2,3,3,7,2,0,3,6,8,5,4,7,7,5,8,0,8>>)

Durations ==
    { d \in [neg : BOOLEAN, mag : DurationMags] :
        /\ (d.mag = <<>> => ~d.neg)
        /\ (d.mag = MinInt64Mag => d.neg) }

\* what the Builder holds before the call
Prefixes == {<<>>, <<"#">>}

BuilderCalls ==
    { [fn |-> "AppendTime", b |-> b, t |-> t, flag |-> f] :
        b \in Prefixes, t \in Times, f \in TimeFlags }
    \cup
    { [fn |-> "AppendDuration", b |-> b, d |-> d] : b \in Prefixes, d \in Durations }

\* the value of the logger where only the Builder is exercised
NoLogger == [core |-> [kind |-> "nop"]]

Pending == [state |-> "pending"]

InitBuilder ==
    /\ NoThreads
    /\ NoLoggers
    /\ logger = NoLogger
    /\ sinks = <<>>
    /\ trace = <<>>
    /\ call \in BuilderCalls
    /\ ret = Pending

DoAppendTime ==
    /\ call.fn = "AppendTime"
    /\ ret = Pending
    /\ LET r == AppendTime(call.b, call.t, call.flag)
       IN  ret' = [state |-> "done", buf |-> r.buf, panic |-> r.panic]
    /\ UNCHANGED <<logger, call, sinks, trace>>
    /\ UNCHANGED concVars
    /\ UNCHANGED withVars

DoAppendDuration ==
    /\ call.fn = "AppendDuration"
    /\ ret = Pending
    /\ LET r == AppendDuration(call.b, call.d)
       IN  ret' = [state |-> "done", buf |-> r.buf, panic |-> r.panic]
    /\ UNCHANGED <<logger, call, sinks, trace>>
    /\ UNCHANGED concVars
    /\ UNCHANGED withVars

NextBuilder == DoAppendTime \/ DoAppendDuration

SpecBuilder == InitBuilder /\ [][NextBuilder]_vars

Done(fn) == call.fn = fn /\ ret # Pending

\* the bytes the call appended to the Builder
Appended == SubSeq(ret.buf, Len(call.b) + 1, Len(ret.buf))

---------------------------------------------------------------------------
(* Reference renderings the appenders are compared with: the layout        *)
(* formatter time.Time.Format and time.Duration.String, written            *)
(* declaratively from their documented output.                             *)

Pad2(n) == <<DigitChar((n \div 10) % 10), DigitChar(n % 10)>>

Pad4(n) == Pad2((n \div 100) % 100) \o Pad2(n % 100)

U64Chars(u) ==
    IF u = <<>> THEN <<"0">> ELSE [k \in 1..Len(u) |-> DigitChar(u[Len(u) + 1 - k])]

\* the low k decimal digits of u, most significant first
LowChars(u, k) == [i \in 1..k |-> DigitChar(DigitAt(u, k + 1 - i))]

HighDigits(u, k) == IF Len(u) > k THEN SubSeq(u, k + 1, Len(u)) ELSE <<>>

\* ".ddd" of the low k digits without trailing zeros, nothing when they are 0
RefFrac(u, k) ==
    LET f == LowChars(u, k)
        z == TrailingZeros(f)
    IN  IF z = k THEN <<>> ELSE <<".">> \o SubSeq(f, 1, k - z)

Abs(n) == IF n < 0 THEN -n ELSE n

\* Z07:00
RefZone(o) ==
    IF o = 0 THEN <<"Z">>
    ELSE <<IF o < 0 THEN "-" ELSE "+">> \o Pad2(Abs(o) \div 3600)
         \o <<":">> \o Pad2((Abs(o) \div 60) % 60)

RefDate(t) == Pad4(t.year) \o <<"-">> \o Pad2(t.month) \o <<"-">> \o Pad2(t.day)

RefClock(t) == Pad2(t.hour) \o <<":">> \o Pad2(t.min) \o <<":">> \o Pad2(t.sec)

\* .000 / .000000 / .000000000 (nine = FALSE) and .999 / ... (nine = TRUE)
RefFraction(t, wid, nine) ==
    LET f == SubSeq(LowChars(NatToDigits(t.nsec), 9), 1, wid)
        z == TrailingZeros(f)
    IN  IF ~nine THEN <<".">> \o f
        ELSE IF z = wid THEN <<>>
        ELSE <<".">> \o SubSeq(f, 1, wid - z)

\* the flag masks of formatTimeTestCases
TableFlags ==
    { Tdate, Ttime, Tdatetime, Tdatetime + Ttimeprefix,
      TdatetimeMilli, TdatetimeMicro, TdatetimeNano,
      TdatetimeMilli + TnineFlag, TdatetimeMicro + TnineFlag, TdatetimeNano + TnineFlag,
      Trfc3339, Trfc3339Nano }

\* t.Format(layout) for the layout paired with a mask of the table
RefFormat(t, flag) ==
    LET wid == IF HasBit(flag, Tnanoseconds) THEN 9
               ELSE IF HasBit(flag, Tmicroseconds) THEN 6
               ELSE IF HasBit(flag, Tmilliseconds) THEN 3 ELSE 0
    IN  (IF HasBit(flag, Tdate) THEN RefDate(t) ELSE <<>>)
        \o (IF HasBit(flag, Tdate) /\ HasBit(flag, Ttime)
            THEN <<IF HasBit(flag, Ttimeprefix) THEN "T" ELSE " ">> ELSE <<>>)
        \o (IF HasBit(flag, Ttime) THEN RefClock(t) ELSE <<>>)
        \o (IF wid > 0 THEN RefFraction(t, wid, HasBit(flag, TnineFlag)) ELSE <<>>)
        \o (IF HasBit(flag, Tzone) THEN RefZone(t.off) ELSE <<>>)

\* time.Duration.String()
RefDurationString(d) ==
    LET u    == d.mag
        sign == IF d.neg THEN <<"-">> ELSE <<>>
        secs == HighDigits(u, 9)
        mins == U64Div(secs, 60)
        hrs  == U64Div(mins, 60)
    IN  IF u = <<>> THEN <<"0", "s">>
        ELSE IF Len(u) <= 3 THEN sign \o U64Chars(u) \o <<"n", "s">>
        ELSE IF Len(u) <= 6
             THEN sign \o U64Chars(HighDigits(u, 3)) \o RefFrac(u, 3) \o <<"\\xc2", "\\xb5", "s">>
        ELSE IF Len(u) <= 9
             THEN sign \o U64Chars(HighDigits(u, 6)) \o RefFrac(u, 6) \o <<"m", "s">>
        ELSE sign
             \o (IF hrs # <<>> THEN U64Chars(hrs) \o <<"h">> ELSE <<>>)
             \o (IF mins # <<>> THEN U64Chars(NatToDigits(U64Mod(mins, 60))) \o <<"m">> ELSE <<>>)
             \o U64Chars(NatToDigits(U64Mod(secs, 60))) \o RefFrac(u, 9) \o <<"s">>

IsSuffix(suf, sq) ==
    /\ Len(suf) <= Len(sq)
    /\ SubSeq(sq, Len(sq) - Len(suf) + 1, Len(sq)) = suf

---------------------------------------------------------------------------
(* Claims about the Builder's appenders, checked under SpecBuilder.        *)

\* C7: for every time (zone offset within -24h..+24h, year 0..9999) and every
\* flag mask, AppendTime stays inside its 40-byte scratch buffer: it never
\* panics and appends at most 40 bytes.
C7_AppendTimeStaysInScratch ==
    Done("AppendTime") => ~ret.panic /\ Len(Appended) <= TimeBufLen

\* C8: with Tzone in the mask the output ends with 'Z' for offset 0 and
\* otherwise with the sign of the offset and HH:MM of its magnitude, for
\* positive and negative offsets alike.
C8_ZoneSuffix ==
    Done("AppendTime") /\ HasBit(call.flag, Tzone)
        => ~ret.panic /\ IsSuffix(RefZone(call.t.off), Appended)

\* C9: for every int64 duration, zero, negative and minimum included,
\* AppendDuration appends exactly time.Duration.String() of it.
C9_DurationEqualsReference ==
    Done("AppendDuration") => ~ret.panic /\ Appended = RefDurationString(call.d)

\* C10: for every time and every flag mask of the test table, AppendTime
\* appends exactly t.Format(layout) of the paired layout.
C10_TimeEqualsLayout ==
    Done("AppendTime") /\ call.flag \in TableFlags
        => ~ret.panic /\ Appended = RefFormat(call.t, call.flag)

---------------------------------------------------------------------------
(* Levels.  Strings are sequences of one-character strings.                *)

DebugLevel == -1
InfoLevel == 0
WarnLevel == 1
ErrorLevel == 2
PanicLevel == 3
FatalLevel == 4

_minLevel == DebugLevel
_maxLevel == FatalLevel

Levels == _minLevel.._maxLevel

\* Level.Enabled: a Level used as the LevelEnabler of a core enables the
\* levels from itself upwards; a level outside the bounds is never enabled
LevelEnabled(l, lvl) == lvl >= l /\ lvl >= _minLevel /\ lvl <= _maxLevel

CapitalString(l) ==
    CASE l = DebugLevel -> <<"D","E","B","U","G">>
      [] l = InfoLevel  -> <<"I","N","F","O">>
      [] l = WarnLevel  -> <<"W","A","R","N">>
      [] l = ErrorLevel -> <<"E","R","R","O","R">>
      [] l = PanicLevel -> <<"P","A","N","I","C">>
      [] l = FatalLevel -> <<"F","A","T","A","L">>
      [] OTHER          -> <<"L","E","V","E","L">>

consoleString(l) == <<"[">> \o CapitalString(l) \o <<"]">>

---------------------------------------------------------------------------
(* Quoting (Builder.AppendQuote, AppendHTMLQuote, appendEscape).           *)

BS == "\\"
DQ == "\""
NL == "\n"

\* A string is a sequence of characters.  The ASCII characters that matter
\* to the safe sets, with their byte values; every other character of the
\* model outside NonAscii is a printable ASCII character.
AsciiCode ==
    [c \in {"\\x01", "\\x07", "\t", NL, "\r", DQ, "&", "<", ">", BS, "\\x7f"} |->
        CASE c = "\\x01" -> 1
          [] c = "\\x07" -> 7
          [] c = "\t"    -> 9
          [] c = NL      -> 10
          [] c = "\r"    -> 13
          [] c = DQ      -> 34
          [] c = "&"     -> 38
          [] c = "<"     -> 60
          [] c = ">"     -> 62
          [] c = BS      -> 92
          [] OTHER       -> 127]

\* a byte that is not valid UTF-8
InvalidByte == "\\xff"

\* the runes of two or more bytes, with their code points: LINE SEPARATOR,
\* PARAGRAPH SEPARATOR, NEXT LINE (a control character) and a CJK letter
RuneCode ==
    [c \in {"U+2028", "U+2029", "U+0085", "U+4E2D"} |->
        CASE c = "U+2028" -> 8232
          [] c = "U+2029" -> 8233
          [] c = "U+0085" -> 133
          [] OTHER        -> 20013]

\* the characters c with c >= utf8.RuneSelf
NonAscii == {InvalidByte} \cup DOMAIN RuneCode

_hex == <<"0", "1", "2", "3", "4", "5", "6", "7", "8", "9", "a", "b", "c", "d", "e", "f">>

\* the characters outside safeSet / htmlSafeSet: the control characters
\* below 0x20, the quote and the backslash, and for HTML '<', '>', '&'
UnsafeChars(html) ==
    {c \in DOMAIN AsciiCode : AsciiCode[c] < 32} \cup {BS, DQ}
        \cup (IF html THEN {"<", ">", "&"} ELSE {})

\* the bytes written for one unsafe ASCII character
EscapeOf(c) ==
    CASE c = BS -> <<BS, BS>>
      [] c = DQ -> <<BS, DQ>>
      [] c = NL -> <<BS, "n">>
      [] c = "\r" -> <<BS, "r">>
      [] c = "\t" -> <<BS, "t">>
      [] OTHER   -> <<BS, "u", "0", "0",
                      _hex[(AsciiCode[c] \div 16) + 1], _hex[(AsciiCode[c] % 16) + 1]>>

\* the bytes written for a character outside ASCII: an invalid byte becomes
\* the escape of the replacement character, the two separators are escaped,
\* every other rune is copied
RuneOf(c) ==
    CASE c = InvalidByte -> <<BS, "u", "f", "f", "f", "d">>
      [] c \in {"U+2028", "U+2029"} -> <<BS, "u", "2", "0", "2", _hex[(RuneCode[c] % 16) + 1]>>
      [] OTHER -> <<c>>

RECURSIVE appendEscape(_, _, _)
appendEscape(b, str, html) ==
    IF str = <<>> THEN b
    ELSE appendEscape(IF Head(str) \in NonAscii
                      THEN b \o RuneOf(Head(str))
                      ELSE IF Head(str) \in UnsafeChars(html)
                      THEN b \o EscapeOf(Head(str))
                      ELSE b \o <<Head(str)>>,
                      Tail(str), html)

AppendQuote(b, str) == appendEscape(b \o <<DQ>>, str, FALSE) \o <<DQ>>

AppendHTMLQuote(b, str) == appendEscape(b \o <<DQ>>, str, TRUE) \o <<DQ>>

\* AppendInt for the non-negative values that occur in entries
AppendInt(b, i) == b \o U64Chars(NatToDigits(i))

---------------------------------------------------------------------------
(* Field values and Builder.AppendJSON.  A value is a record tagged with   *)
(* its dynamic type: "int", "string", "O" (nested object), "Os" ([]O),     *)
(* "struct" (a value the reflection encoder renders) and "chan" (a value   *)
(* the reflection encoder rejects with an UnsupportedTypeError).           *)

IntVal(n) == [t |-> "int", v |-> n]
StrVal(str) == [t |-> "string", v |-> str]
ChanVal == [t |-> "chan", v |-> 0]
StructVal(json) == [t |-> "struct", v |-> json]
OVal(fs) == [t |-> "O", v |-> fs]
OsVal(os) == [t |-> "Os", v |-> os]

F(key, val) == [Key |-> key, Val |-> val]

\* error values: nil, a plain error, or a *multiError with its list
Nil == [kind |-> "nil", id |-> <<"", 0>>, errors |-> <<>>]

Err(name, n) == [kind |-> "err", id |-> <<name, n>>, errors |-> <<>>]

MultiError(es) == [kind |-> "multi", id |-> <<"", 0>>, errors |-> es]

ErrUnsupportedType == Err("json: unsupported type", 0)

\* Further values: an untyped nil, [t |-> "nil"]; a pointer,
\* [t |-> "ptr", elem, nil, v], v being what it points to (none when nil);
\* a slice, [t |-> "slice", elem, nil, vs], vs being its elements.  elem is the
\* name of a type with cases of its own in AppendJSON: string, bool, the
\* integer, float and complex types.
UntypedNil == [t |-> "nil"]

IntTypes == {"int", "int8", "int16", "int32", "int64", "uint", "uint8", "uint16", "uint32", "uint64"}
FloatTypes == {"float32", "float64"}
ComplexTypes == {"complex64", "complex128"}

\* a value or a list of values of the type elem, held in a field named
\* after the kind of the type, and taken out of it
Box(elem, v) ==
    CASE elem = "string" -> [s |-> v]
      [] elem = "bool" -> [b |-> v]
      [] elem \in IntTypes \cup FloatTypes -> [n |-> v]
      [] OTHER -> [c |-> v]

Unbox(elem, bx) ==
    CASE elem = "string" -> bx.s
      [] elem = "bool" -> bx.b
      [] elem \in IntTypes \cup FloatTypes -> bx.n
      [] OTHER -> bx.c

ScalarVal(elem, v) == [t |-> "scalar", elem |-> elem, v |-> Box(elem, v)]
PtrVal(elem, v) == [t |-> "ptr", elem |-> elem, nil |-> FALSE, v |-> Box(elem, v)]
NilPtr(elem) == [t |-> "ptr", elem |-> elem, nil |-> TRUE]
SliceVal(elem, vs) == [t |-> "slice", elem |-> elem, nil |-> FALSE, vs |-> Box(elem, vs)]
NilSliceVal(elem) == [t |-> "slice", elem |-> elem, nil |-> TRUE, vs |-> Box(elem, <<>>)]

AppendBool(b, v) == b \o (IF v THEN <<"t", "r", "u", "e">> ELSE <<"f", "a", "l", "s", "e">>)

\* appendFloat for the whole numbers below 1e21: format 'f' with the
\* shortest precision writes the digits and no fraction
appendFloat(b, f) == b \o U64Chars(NatToDigits(f))

\* AppendComplex64 and AppendComplex128: real part, '+', imaginary part, 'i'
AppendComplex(b, val) == appendFloat(appendFloat(b, val[1]) \o <<"+">>, val[2]) \o <<"i">>

_base64 ==
    <<"A", "B", "C", "D", "E", "F", "G", "H", "I", "J", "K", "L", "M", "N", "O", "P",
      "Q", "R", "S", "T", "U", "V", "W", "X", "Y", "Z", "a", "b", "c", "d", "e", "f",
      "g", "h", "i", "j", "k", "l", "m", "n", "o", "p", "q", "r", "s", "t", "u", "v",
      "w", "x", "y", "z", "0", "1", "2", "3", "4", "5", "6", "7", "8", "9", "+", "/">>

RECURSIVE AppendByteSlice(_, _)
\* base64.StdEncoding of v: four characters for three bytes, padded with '='
AppendByteSlice(b, v) ==
    IF v = <<>> THEN b
    ELSE LET n == v[1] * 65536 + (IF Len(v) > 1 THEN v[2] * 256 ELSE 0)
                    + (IF Len(v) > 2 THEN v[3] ELSE 0)
             q == <<_base64[(n \div 262144) + 1], _base64[((n \div 4096) % 64) + 1],
                    IF Len(v) > 1 THEN _base64[((n \div 64) % 64) + 1] ELSE "=",
                    IF Len(v) > 2 THEN _base64[(n % 64) + 1] ELSE "=">>
         IN  IF Len(v) <= 3 THEN b \o q ELSE AppendByteSlice(b \o q, SubSeq(v, 4, Len(v)))

Wrote(buf) == [buf |-> buf, err |-> Nil, panic |-> FALSE]

\* what the cases `case T:` and `case *T:` call on v and on *v, and the
\* loops of `case []T:` on every element
AppendElem(b, elem, v) ==
    CASE elem = "string" -> Wrote(AppendHTMLQuote(b, v))
      [] elem = "bool" -> Wrote(AppendBool(b, v))
      [] elem \in IntTypes -> Wrote(AppendInt(b, v))
      [] elem \in FloatTypes -> Wrote(appendFloat(b, v))
      [] OTHER -> Wrote(AppendComplex(b \o <<DQ>>, v) \o <<DQ>>)

RECURSIVE AppendElems(_, _, _, _)
\* the loop over a slice: a comma before every element but the first
AppendElems(b, elem, vs, i) ==
    IF i > Len(vs) THEN b
    ELSE AppendElems(AppendElem(IF i > 1 THEN b \o <<",">> ELSE b, elem, vs[i]).buf,
                     elem, vs, i + 1)

appendNullOrElse(b, isNil, elseOp) == IF isNil THEN b \o <<"n", "u", "l", "l">> ELSE elseOp

\* AppendJSON: the buffer, the returned error, and whether the call
\* panicked instead of returning.  `case *T:` reads *v, which is a nil
\* pointer dereference when v is nil.
AppendJSON(b, iv) ==
    CASE iv.t = "nil"    -> [buf |-> b \o <<"n", "u", "l", "l">>, err |-> Nil, panic |-> FALSE]
      [] iv.t = "int"    -> [buf |-> AppendInt(b, iv.v), err |-> Nil, panic |-> FALSE]
      [] iv.t = "string" -> [buf |-> AppendHTMLQuote(b, iv.v), err |-> Nil, panic |-> FALSE]
      [] iv.t = "scalar" -> AppendElem(b, iv.elem, Unbox(iv.elem, iv.v))
      [] iv.t = "ptr" ->
            IF iv.nil
            THEN [buf |-> IF iv.elem \in ComplexTypes THEN b \o <<DQ>> ELSE b,
                  err |-> Nil, panic |-> TRUE]
            ELSE AppendElem(b, iv.elem, Unbox(iv.elem, iv.v))
      [] iv.t = "slice" ->
            [buf |-> appendNullOrElse(b, iv.nil,
                        IF iv.elem = "uint8"
                        THEN AppendByteSlice(b \o <<DQ>>, Unbox(iv.elem, iv.vs)) \o <<DQ>>
                        ELSE AppendElems(b \o <<"[">>, iv.elem, Unbox(iv.elem, iv.vs), 1) \o <<"]">>),
             err |-> Nil, panic |-> FALSE]
      [] iv.t = "struct" ->
            \* default case: json.Encoder writes the value and a newline,
            \* the newline is cut
            LET enc == b \o iv.v \o <<NL>>
            IN  [buf |-> SubSeq(enc, 1, Len(enc) - 1), err |-> Nil, panic |-> FALSE]
      [] OTHER ->
            \* default case, Encode fails: nothing was written, the buffer
            \* is cut back to its length on entry
            LET len == Len(b)
            IN  [buf |-> SubSeq(b, 1, len), err |-> ErrUnsupportedType, panic |-> FALSE]

\* Field.appendTo and O.appendTo: they return nothing, the error of
\* AppendJSON is dropped
RECURSIVE FieldAppendTo(_, _), OAppendTo(_, _, _), OsAppendTo(_, _, _)
FieldAppendTo(b, f) ==
    LET b1 == AppendQuote(b, f.Key) \o <<":">>
    IN  CASE f.Val.t = "O"  -> OAppendTo(b1 \o <<"{">>, f.Val.v, 1) \o <<"}">>
          [] f.Val.t = "Os" -> OsAppendTo(b1 \o <<"[">>, f.Val.v, 1) \o <<"]">>
          [] OTHER          -> AppendJSON(b1, f.Val).buf

OAppendTo(b, o, i) ==
    IF i > Len(o) THEN b
    ELSE OAppendTo(FieldAppendTo(IF i > 1 THEN b \o <<",">> ELSE b, o[i]), o, i + 1)

OsAppendTo(b, os, i) ==
    IF i > Len(os) THEN b
    ELSE OsAppendTo(
            OAppendTo((IF i > 1 THEN b \o <<",">> ELSE b) \o <<"{">>, os[i], 1) \o <<"}">>,
            os, i + 1)

---------------------------------------------------------------------------
(* Encoders.                                                               *)

Ldate == 1
Ltime == 2
Lmicroseconds == 4
Llongfile == 8
Lshortfile == 16
LUTC == 32
LstdFlags == Ldate + Ltime

timeFlags(flags) ==
    (IF HasBit(flags, Ldate) THEN Tdate ELSE 0)
    + (IF HasBit(flags, Ltime) THEN Ttime ELSE 0)
    + (IF HasBit(flags, Lmicroseconds) THEN Tmicroseconds ELSE 0)

\* the index of the last '/' of file at a position i > 0 (Go index), or -1
RECURSIVE LastSlash(_, _)
LastSlash(file, i) ==
    IF i <= 0 THEN -1
    ELSE IF file[i + 1] = "/" THEN i
    ELSE LastSlash(file, i - 1)

callerFile(file, flags) ==
    IF HasBit(flags, Lshortfile)
    THEN LET i == LastSlash(file, Len(file) - 1)
         IN  IF i >= 0 THEN SubSeq(file, i + 2, Len(file)) ELSE file
    ELSE file

\* the time converted to UTC: the wall clock moved back by the zone offset.
\* The sample times that are converted lie at least a day inside a month.
UTC(t) ==
    LET secs == t.hour * 3600 + t.min * 60 + t.sec - t.off
        dayShift == IF secs < 0 THEN -1 ELSE IF secs >= 86400 THEN 1 ELSE 0
        s == secs - dayShift * 86400
    IN  [t EXCEPT !.day = t.day + dayShift, !.hour = s \div 3600,
                  !.min = (s \div 60) % 60, !.sec = s % 60, !.off = 0]

\* an encoder result: the buffer, the returned error, and whether the
\* call panicked
EncResult(b, panic) == [buf |-> b, err |-> Nil, panic |-> panic]

hasCaller(flags, e) ==
    (HasBit(flags, Llongfile) \/ HasBit(flags, Lshortfile)) /\ e.Caller.Defined

\* consoleEncoder.Encode, "Level" and "Time"
consoleTime(flags, b, e) ==
    IF timeFlags(flags) # 0
    THEN AppendTime(b \o consoleString(e.Level) \o <<" ">>,
                    IF HasBit(flags, LUTC) THEN UTC(e.Time) ELSE e.Time,
                    timeFlags(flags))
    ELSE [buf |-> b \o consoleString(e.Level), panic |-> FALSE]

\* "Name"
consoleName(b, e) == IF e.LoggerName # <<>> THEN b \o e.LoggerName ELSE b

\* "Caller"
consoleCaller(flags, b, e) ==
    IF hasCaller(flags, e)
    THEN AppendInt((IF e.LoggerName # <<>> THEN b \o <<":">> ELSE b)
                   \o callerFile(e.Caller.File, flags) \o <<":">>, e.Caller.Line)
    ELSE b

\* "Message" with the separator written unconditionally
consoleMessageAlways(flags, b, e) == b \o <<":", " ">> \o e.Message \o <<NL>>

\* "Message"
consoleMessage(flags, b, e) ==
    (IF e.LoggerName # <<>> \/ hasCaller(flags, e) THEN b \o <<":", " ">> ELSE b)
    \o e.Message \o <<NL>>

\* "Fields"
consoleCtx(b, e) == IF Len(e.Ctx) > 0 THEN OAppendTo(b, e.Ctx, 1) ELSE b

consoleFields(b, e) ==
    IF Len(e.Fields) > 0
    THEN OAppendTo(IF Len(e.Ctx) > 0 THEN b \o <<",">> ELSE b, e.Fields, 1)
    ELSE b

consoleObject(b, e) ==
    IF Len(e.Ctx) > 0 \/ Len(e.Fields) > 0
    THEN consoleFields(consoleCtx(b \o <<" ", "-", " ", " ">> \o <<"{">>, e), e) \o <<"}", NL>>
    ELSE b

\* the encoder after AppendTime returned tm (or panicked)
consoleAfterTime(flags, b, e, tm) ==
    IF tm.panic THEN EncResult(b, TRUE)
    ELSE EncResult(
            consoleObject(
                consoleMessage(flags,
                    consoleCaller(flags, consoleName(tm.buf \o <<" ">>, e), e), e), e),
            FALSE)

consoleEncode(flags, b, e) == consoleAfterTime(flags, b, e, consoleTime(flags, b, e))

\* jsonEncoder.Encode, "level" and "time" up to AppendTime
jsonTime(b, e) ==
    AppendTime(b \o <<"{">> \o <<"\"level\":", DQ>> \o CapitalString(e.Level) \o <<DQ>>
               \o <<",", "\"time\":">> \o <<DQ>>,
               e.Time, Trfc3339Nano)

jsonLogger(b, e) ==
    IF e.LoggerName # <<>> THEN AppendHTMLQuote(b \o <<",", "\"logger\":">>, e.LoggerName) ELSE b

jsonCaller(flags, b, e) ==
    IF hasCaller(flags, e)
    THEN AppendInt(b \o <<",", "\"caller\":", DQ>> \o callerFile(e.Caller.File, flags) \o <<":">>,
                   e.Caller.Line) \o <<DQ>>
    ELSE b

jsonMessage(b, e) == AppendHTMLQuote(b \o <<",", "\"msg\":">>, e.Message)

jsonCtx(b, e) == IF Len(e.Ctx) > 0 THEN OAppendTo(b \o <<",">>, e.Ctx, 1) ELSE b

jsonFields(b, e) == IF Len(e.Fields) > 0 THEN OAppendTo(b \o <<",">>, e.Fields, 1) ELSE b

\* the encoder after AppendTime returned tm (or panicked)
jsonAfterTime(flags, b, e, tm) ==
    IF tm.panic THEN EncResult(b, TRUE)
    ELSE EncResult(
            jsonFields(
                jsonCtx(
                    jsonMessage(jsonCaller(flags, jsonLogger(tm.buf \o <<DQ>>, e), e), e), e), e)
            \o <<"}", NL>>,
            FALSE)

jsonEncode(flags, b, e) == jsonAfterTime(flags, b, e, jsonTime(b, e))

Encode(enc, b, e) ==
    IF enc.kind = "json" THEN jsonEncode(enc.flags, b, e)
    ELSE consoleEncode(enc.flags, b, e)

---------------------------------------------------------------------------
(* Errors (combineErrors) and sinks.                                       *)

ErrorItems(e) == IF e.kind = "multi" THEN e.errors ELSE <<e>>

\* a variant of combineErrors that keeps only the later error
combineErrorsKeepRight(left, right) ==
    IF right = Nil THEN left ELSE right

combineErrors(left, right) ==
    IF left = Nil THEN right
    ELSE IF right = Nil THEN left
    ELSE MultiError(ErrorItems(left) \o ErrorItems(right))

\* A sink is an io.Writer outside the library.  Its capabilities are fixed
\* (hook: it has a Sync or Flush method; joint: its errors are multiErrors,
\* as those of a MultiWriter over two failing files are).  How a call on it
\* ends is an input of the call: mode.w is "ok", "short" (n < len(p) with a
\* nil error) or "fail"; mode.s is "ok" or "fail".
SinkModes ==
    { [w |-> "ok", s |-> "ok"], [w |-> "ok", s |-> "fail"],
      [w |-> "short", s |-> "ok"], [w |-> "fail", s |-> "ok"] }

FreshSink == [out |-> <<>>, writes |-> 0, syncs |-> 0]

WriteError(w) ==
    IF w.joint
    THEN MultiError(<<Err("write", 10 * w.id + 1), Err("write", 10 * w.id + 2)>>)
    ELSE Err("write", w.id)

SyncError(w) == Err("sync", w.id)

\* w.Write(p): the sink afterwards, the count and the error
SinkWrite(sink, w, p, mode) ==
    CASE mode.w = "ok" ->
            [sink |-> [sink EXCEPT !.out = @ \o p, !.writes = @ + 1],
             n |-> Len(p), err |-> Nil]
      [] mode.w = "short" ->
            [sink |-> [sink EXCEPT !.out = @ \o SubSeq(p, 1, Len(p) - 1), !.writes = @ + 1],
             n |-> Len(p) - 1, err |-> Nil]
      [] OTHER ->
            [sink |-> [sink EXCEPT !.writes = @ + 1], n |-> 0, err |-> WriteError(w)]

\* getSyncFunc: the flush hook of a writer, or none
getSyncFunc(w) == w.hook

---------------------------------------------------------------------------
(* Cores.                                                                  *)

nopCore == [kind |-> "nop"]

NewCore(enc, w, enab) ==
    [kind |-> "io", enc |-> enc, w |-> w, enab |-> enab, sync |-> getSyncFunc(w)]

\* getBuilder: a pooled Builder, reset to length 0
getBuilder == <<>>

\* the outcome of a call on a core: the returned error, the sinks, the child
\* calls made by multiCores, and whether the call panicked instead of
\* returning
Outcome(err, sk, tr, panic) == [err |-> err, sinks |-> sk, trace |-> tr, panic |-> panic]

ioCoreSync(c, sk, tr, modes) ==
    IF c.sync
    THEN Outcome(IF modes[c.w.id].s = "fail" THEN SyncError(c.w) ELSE Nil,
                 [sk EXCEPT ![c.w.id].syncs = @ + 1], tr, FALSE)
    ELSE Outcome(Nil, sk, tr, FALSE)

\* a variant of the end of ioCore.Write that flushes an entry at or above
\* ErrorLevel whether or not the write succeeded, and combines the two errors
ioCoreAfterWriteAlwaysSync(c, e, sk, tr, modes, err) ==
    IF e.Level >= ErrorLevel
    THEN Outcome(combineErrors(err, ioCoreSync(c, sk, tr, modes).err),
                 ioCoreSync(c, sk, tr, modes).sinks, tr, FALSE)
    ELSE Outcome(err, sk, tr, FALSE)

\* ioCore.Write after Encode and w.Write: err is the error so far, sk the
\* sinks
ioCoreAfterWrite(c, e, sk, tr, modes, err) ==
    IF err = Nil /\ e.Level >= ErrorLevel
    THEN ioCoreSync(c, sk, tr, modes)
    ELSE Outcome(err, sk, tr, FALSE)

\* c.w.Write(b.Bytes()) and the rest of ioCore.Write; wr is the result of
\* the sink's Write
ioCoreWriteBytes(c, e, sk, tr, modes, wr) ==
    ioCoreAfterWrite(c, e, [sk EXCEPT ![c.w.id] = wr.sink], tr, modes, wr.err)

\* ioCore.Write after Encode returned enc (or panicked)
ioCoreAfterEncode(c, e, sk, tr, modes, enc) ==
    IF enc.panic THEN Outcome(Nil, sk, tr, TRUE)
    ELSE IF enc.err = Nil
    THEN ioCoreWriteBytes(c, e, sk, tr, modes,
                          SinkWrite(sk[c.w.id], c.w, enc.buf, modes[c.w.id]))
    ELSE ioCoreAfterWrite(c, e, sk, tr, modes, enc.err)

ioCoreWrite(c, e, sk, tr, modes) ==
    ioCoreAfterEncode(c, e, sk, tr, modes, Encode(c.enc, getBuilder, e))

\* Core.Write / Core.Sync by dynamic dispatch; op is "Write" or "Sync".
\* multiCore: every child in list order, the errors combined.
RECURSIVE CoreCall(_, _, _, _, _, _), multiCoreLoop(_, _, _, _, _, _)
CoreCall(op, c, e, sk, tr, modes) ==
    CASE c.kind = "nop" -> Outcome(Nil, sk, tr, FALSE)
      [] c.kind = "io"  -> IF op = "Write" THEN ioCoreWrite(c, e, sk, tr, modes)
                           ELSE ioCoreSync(c, sk, tr, modes)
      [] OTHER          -> multiCoreLoop(op, c, e, 1, Outcome(Nil, sk, tr, FALSE), modes)

multiCoreLoop(op, mc, e, i, acc, modes) ==
    IF i > Len(mc.cores) \/ acc.panic THEN acc
    ELSE LET r    == CoreCall(op, mc.cores[i], e, acc.sinks, acc.trace, modes)
             cerr == r.err
             err  == IF cerr # Nil THEN combineErrors(acc.err, cerr) ELSE acc.err
             tr   == Append(r.trace, [child |-> i, err |-> cerr, panic |-> r.panic])
         IN  multiCoreLoop(op, mc, e, i + 1, Outcome(err, r.sinks, tr, r.panic), modes)

\* a variant of Enabled whose fan-out case clamps the level into the table
\* instead of rejecting a level outside the range
CoreEnabledClamped(c, lvl) ==
    CASE c.kind = "nop" -> FALSE
      [] c.kind = "io"  -> LevelEnabled(c.enab, lvl)
      [] OTHER          -> c.levelsEnabled[IF lvl < _minLevel THEN 0
                                           ELSE IF lvl > _maxLevel THEN _maxLevel + 1
                                           ELSE lvl + 1]

CoreEnabled(c, lvl) ==
    CASE c.kind = "nop" -> FALSE
      [] c.kind = "io"  -> LevelEnabled(c.enab, lvl)
      [] OTHER          -> IF lvl < _minLevel \/ lvl > _maxLevel THEN FALSE
                           ELSE c.levelsEnabled[lvl + 1]

\* a variant of the flattening that keeps a fan-out as a child
allCoresNested(cores) == cores

\* the children of a fan-out inlined
RECURSIVE allCores(_)
allCores(cores) ==
    IF cores = <<>> THEN <<>>
    ELSE (IF Head(cores).kind = "multi" THEN Head(cores).cores ELSE <<Head(cores)>>)
         \o allCores(Tail(cores))

\* a variant of NewTee whose table loop stops one level early
NewTeeShortLoop(cores) ==
    IF Len(cores) = 0 THEN nopCore
    ELSE IF Len(cores) = 1 THEN cores[1]
    ELSE LET all == allCores(cores)
         IN  [kind |-> "multi", cores |-> all,
              levelsEnabled |->
                  [i \in 0..(_maxLevel + 1) |->
                      /\ i - 1 >= _minLevel
                      /\ i - 1 < _maxLevel
                      /\ \E k \in 1..Len(all) : CoreEnabled(all[k], i - 1)]]

NewTee(cores) ==
    IF Len(cores) = 0 THEN nopCore
    ELSE IF Len(cores) = 1 THEN cores[1]
    ELSE LET all == allCores(cores)
         IN  [kind |-> "multi", cores |-> all,
              levelsEnabled |->
                  [i \in 0..(_maxLevel + 1) |->
                      /\ i - 1 >= _minLevel
                      /\ i - 1 < _maxLevel + 1
                      /\ \E k \in 1..Len(all) : CoreEnabled(all[k], i - 1)]]

---------------------------------------------------------------------------
(* The Logger facade.                                                      *)

\* New(core) without options
New(c) == [core |-> c, addCaller |-> FALSE, callerSkip |-> 0, name |-> <<>>, ctx |-> <<>>]

NoCaller == [Defined |-> FALSE, File |-> <<>>, Line |-> 0]

\* Logger.log after core.Write: its error is dropped; r is the outcome of
\* the Write
LoggerAfterWrite(lvl, r) ==
    [out |-> r, calls |-> 1,
     ending |-> IF r.panic THEN "crash"
                ELSE IF lvl = PanicLevel THEN "panic"
                ELSE IF lvl = FatalLevel THEN "exit" ELSE "return"]

\* Logger.log with a nil fmtArgs (messagef returns the template); now is
\* time.Now() and caller is NewEntryCaller(runtime.Caller(..)).  The result
\* is the outcome of core.Write (if it was called) and how the call ended:
\* "return", "panic" (the PanicLevel panic), "exit" (os.Exit(1)) or "crash"
\* (a run-time panic raised inside core.Write).
LoggerLog(l, lvl, template, fields, now, caller, sk, modes) ==
    IF ~CoreEnabled(l.core, lvl)
    THEN [out |-> Outcome(Nil, sk, <<>>, FALSE), calls |-> 0,
          ending |-> IF lvl = PanicLevel THEN "panic"
                     ELSE IF lvl = FatalLevel THEN "exit" ELSE "return"]
    ELSE LoggerAfterWrite(lvl,
            CoreCall("Write", l.core,
                     [Level |-> lvl, Time |-> now, Message |-> template, Fields |-> fields,
                      LoggerName |-> l.name, Ctx |-> l.ctx,
                      Caller |-> IF l.addCaller THEN caller ELSE NoCaller],
                     sk, <<>>, modes))

---------------------------------------------------------------------------
(* The explored configurations and calls of the cores.                     *)

\* the largest number of cores given to NewTee
MaxCores == 2

\* a file with a Sync method
FileSink(i) == [id |-> i, hook |-> TRUE, joint |-> FALSE]

\* a writer with a Sync method whose errors are multiErrors
JointSink(i) == [id |-> i, hook |-> TRUE, joint |-> TRUE]

\* a writer with neither Sync nor Flush
PlainSink(i) == [id |-> i, hook |-> FALSE, joint |-> FALSE]

\* the cores a configuration is made of; the core at position i of the
\* list writes to its own sink i
CoreKinds == {"console", "json", "plain"}

KindCore(k, i) ==
    CASE k = "console" ->
            NewCore([kind |-> "console", flags |-> LstdFlags + Lmicroseconds + Lshortfile],
                    FileSink(i), DebugLevel)
      [] k = "json" ->
            NewCore([kind |-> "json", flags |-> Lshortfile], JointSink(i), ErrorLevel)
      [] OTHER ->
            NewCore([kind |-> "json", flags |-> 0], PlainSink(i), WarnLevel)

CoreLists ==
    UNION { { [i \in 1..n |-> KindCore(ks[i], i)] : ks \in [1..n -> CoreKinds] } : n \in 0..MaxCores }

Str_msg == <<"m", "s", "g">>

UtcTime ==
    [year |-> 2019, month |-> 1, day |-> 18, hour |-> 12, min |-> 0, sec |-> 35,
     nsec |-> 9876, off |-> 0]

\* the same wall clock in a zone five hours west of UTC
WestTime == [UtcTime EXCEPT !.off = -18000]

\* the same wall clock in a zone five and a half hours east of UTC
EastTime == [UtcTime EXCEPT !.off = 19800]

TestCaller == [Defined |-> TRUE, File |-> <<"x", "/", "c", ".", "g", "o">>, Line |-> 30]

GoodFields == <<F(<<"i">>, IntVal(100)), F(<<"s">>, StrVal(<<"o", "k">>))>>

\* a field the reflection encoder cannot render, followed by one it can
BadFields == <<F(<<"c", "h">>, ChanVal), F(<<"i">>, IntVal(100))>>

EntryBodies ==
    { [Time |-> UtcTime, Message |-> Str_msg, Fields |-> GoodFields, LoggerName |-> <<>>,
       Ctx |-> <<F(<<"n">>, IntVal(9000))>>, Caller |-> TestCaller],
      [Time |-> UtcTime, Message |-> Str_msg, Fields |-> BadFields, LoggerName |-> <<"s", "v">>,
       Ctx |-> <<>>, Caller |-> NoCaller],
      [Time |-> WestTime, Message |-> Str_msg, Fields |-> <<>>, LoggerName |-> <<>>,
       Ctx |-> <<>>, Caller |-> NoCaller] }

Entries ==
    { [Level |-> lvl, Time |-> b.Time, Message |-> b.Message, Fields |-> b.Fields,
       LoggerName |-> b.LoggerName, Ctx |-> b.Ctx, Caller |-> b.Caller] :
      lvl \in Levels, b \in EntryBodies }

NumSinks == Len(sinks)

\* the writer of the core at position i
WriterAt(i) == IF logger.core.kind = "multi" THEN logger.core.cores[i].w ELSE logger.core.w

\* how the calls on the sinks end during one call of the library; a writer
\* without a flush hook has no flush outcome
ModesOfCall ==
    { ms \in [1..NumSinks -> SinkModes] :
        \A i \in 1..NumSinks : ~WriterAt(i).hook => ms[i].s = "ok" }

Init ==
    /\ NoThreads
    /\ NoLoggers
    /\ \E cores \in CoreLists :
          /\ logger = New(NewTee(cores))
          /\ sinks = [i \in 1..Len(cores) |-> FreshSink]
    /\ trace = <<>>
    /\ call = [fn |-> "none"]
    /\ ret = Pending

Returned(r, calls, ending) ==
    [state |-> "done", err |-> r.err, calls |-> calls, ending |-> ending]

\* a call of one of the level methods of the Logger
Log ==
    /\ ret = Pending /\ call.fn = "none"
    /\ \E lvl \in Levels, now \in {UtcTime, WestTime}, modes \in ModesOfCall :
          \E r \in {LoggerLog(logger, lvl, Str_msg, <<>>, now, TestCaller, sinks, modes)} :
              /\ call' = [fn |-> "Logger.log", lvl |-> lvl, now |-> now, modes |-> modes]
              /\ ret' = Returned(r.out, r.calls, r.ending)
              /\ sinks' = r.out.sinks
              /\ trace' = r.out.trace
    /\ UNCHANGED logger
    /\ UNCHANGED concVars
    /\ UNCHANGED withVars

\* logger.Core().Write(e), whether or not the level is enabled
Write ==
    /\ ret = Pending /\ call.fn = "none"
    /\ \E e \in Entries, modes \in ModesOfCall :
          \E r \in {CoreCall("Write", logger.core, e, sinks, <<>>, modes)} :
              /\ call' = [fn |-> "Core.Write", e |-> e, modes |-> modes]
              /\ ret' = Returned(r, 1, IF r.panic THEN "crash" ELSE "return")
              /\ sinks' = r.sinks
              /\ trace' = r.trace
    /\ UNCHANGED logger
    /\ UNCHANGED concVars
    /\ UNCHANGED withVars

\* Logger.Sync: core.Sync()
Sync ==
    /\ ret = Pending /\ call.fn = "none"
    /\ \E modes \in ModesOfCall :
          \E r \in {CoreCall("Sync", logger.core, NoCaller, sinks, <<>>, modes)} :
              /\ call' = [fn |-> "Core.Sync", modes |-> modes]
              /\ ret' = Returned(r, 1, "return")
              /\ sinks' = r.sinks
              /\ trace' = r.trace
    /\ UNCHANGED logger
    /\ UNCHANGED concVars
    /\ UNCHANGED withVars

Next == Log \/ Write \/ Sync

Spec == Init /\ [][Next]_vars

---------------------------------------------------------------------------
(* Claims about the cores and the Logger, checked under Spec.              *)

\* the ioCores a core writes through
CoresOf(c) ==
    IF c.kind = "multi" THEN {c.cores[i] : i \in 1..Len(c.cores)}
    ELSE IF c.kind = "io" THEN {c} ELSE {}

\* core.Write or core.Sync was called and returned to its caller
CoreReturned == ret # Pending /\ ret.calls = 1 /\ ret.ending # "crash"

IsWriteCall == call.fn \in {"Core.Write", "Logger.log"}

RECURSIVE TraceErrors(_)
TraceErrors(tr) ==
    IF tr = <<>> THEN <<>>
    ELSE (IF Head(tr).err = Nil THEN <<>> ELSE ErrorItems(Head(tr).err)) \o TraceErrors(Tail(tr))

HasUnsupported(fs) == \E i \in 1..Len(fs) : fs[i].Val.t = "chan"

\* a key and its ':' with no value behind them
HasDanglingKey(out) ==
    \E k \in 1..Len(out) :
        /\ out[k] = ":"
        /\ k > 1 /\ out[k - 1] = DQ
        /\ (k = Len(out) \/ out[k + 1] \in {",", "}", "]"})

Reports(err, item) == err # Nil /\ \E k \in 1..Len(ErrorItems(err)) : ErrorItems(err)[k] = item

\* C1: after a log call at level L through the Logger, the sink of every core
\* whose own Enabled(L) is false has received no byte.
C1_NoBytesToDisabledCore ==
    Done("Logger.log") =>
        \A c \in CoresOf(logger.core) :
            ~CoreEnabled(c, call.lvl) => sinks[c.w.id].out = <<>> /\ sinks[c.w.id].writes = 0

\* C2: a Write or Sync of a multiCore that returns has called every child
\* exactly once, in list order, also after a child returned an error; the
\* result is nil iff every child returned nil, and otherwise it holds the
\* errors of all children in child order.
C2_FanOutCombinesAll ==
    (CoreReturned /\ logger.core.kind = "multi") =>
        /\ Len(trace) = Len(logger.core.cores)
        /\ \A i \in 1..Len(trace) : trace[i].child = i
        /\ IsWriteCall => \A i \in 1..NumSinks : sinks[i].writes = 1
        /\ call.fn = "Core.Sync" =>
              \A i \in 1..NumSinks : sinks[i].syncs = (IF WriterAt(i).hook THEN 1 ELSE 0)
        /\ (ret.err = Nil) <=> (\A i \in 1..Len(trace) : trace[i].err = Nil)
        /\ ret.err # Nil => ErrorItems(ret.err) = TraceErrors(trace)

\* a fan-out whose first child failed and whose second child was still
\* called and failed too
C2_Witness ==
    /\ CoreReturned /\ logger.core.kind = "multi"
    /\ Len(trace) = 2
    /\ trace[1].err # Nil /\ trace[2].err # Nil
    /\ Len(ErrorItems(ret.err)) >= 2

\* C3 as stated: an ioCore.Write on a sink with a flush hook invokes the hook
\* exactly once iff the level is at or above ErrorLevel, also when the write
\* failed, and returns the write error combined with the flush error.
C3_FlushAtErrorEvenAfterFailure ==
    (Done("Core.Write") /\ ret.ending = "return" /\ logger.core.kind = "io" /\ logger.core.sync) =>
        /\ sinks[1].syncs = (IF call.e.Level >= ErrorLevel THEN 1 ELSE 0)
        /\ ret.err = combineErrors(
               IF call.modes[1].w = "fail" THEN WriteError(logger.core.w) ELSE Nil,
               IF call.e.Level >= ErrorLevel /\ call.modes[1].s = "fail"
               THEN SyncError(logger.core.w) ELSE Nil)

\* C3 amended: an ioCore.Write on a sink with a flush hook invokes the hook
\* exactly once iff the level is at or above ErrorLevel and the sink's Write
\* was called and returned a nil error, and never otherwise; when it
\* returns, the result is the flush result if the hook was invoked and the
\* error of the write, unchanged, if not.
C3_FlushOnlyAfterCleanWrite ==
    (Done("Core.Write") /\ logger.core.kind = "io" /\ logger.core.sync) =>
        LET wrote   == sinks[1].writes = 1 /\ call.modes[1].w # "fail"
            flushed == call.e.Level >= ErrorLevel /\ wrote
        IN  /\ sinks[1].syncs = (IF flushed THEN 1 ELSE 0)
            /\ ret.ending = "return" =>
                  ret.err = (IF flushed
                             THEN (IF call.modes[1].s = "fail"
                                   THEN SyncError(logger.core.w) ELSE Nil)
                             ELSE (IF call.modes[1].w = "fail"
                                   THEN WriteError(logger.core.w) ELSE Nil))

\* an Error-level write that failed: the hook was not invoked and the write
\* error came back alone
C3_Witness ==
    /\ Done("Core.Write") /\ ret.ending = "return"
    /\ logger.core.kind = "io" /\ logger.core.sync
    /\ call.e.Level >= ErrorLevel /\ call.modes[1].w = "fail"
    /\ sinks[1].syncs = 0 /\ sinks[1].writes = 1
    /\ ret.err = WriteError(logger.core.w)

\* C4: an ioCore.Write whose sink wrote fewer bytes than were rendered and
\* returned a nil error returns a non-nil error.
C4_ShortWriteIsError ==
    (Done("Core.Write") /\ ret.ending = "return" /\ logger.core.kind = "io"
       /\ call.modes[1].w = "short") => ret.err # Nil

\* C5: a Core.Write of an entry with a field value the structural encoder
\* rejects returns a non-nil error reporting that failure, with the console
\* and with the JSON encoder.
C5_EncodeFailureReported ==
    (Done("Core.Write") /\ ret.ending = "return" /\ logger.core.kind = "io"
       /\ HasUnsupported(call.e.Fields)) => Reports(ret.err, ErrUnsupportedType)

\* C6: after a field value failed to encode, either no key is left without
\* its value in what was rendered (the following fields do not come after a
\* dangling key) or the failure is reported to the caller.
C6_NoDanglingKey ==
    (Done("Core.Write") /\ ret.ending = "return") =>
        \/ Reports(ret.err, ErrUnsupportedType)
        \/ \A i \in 1..NumSinks : ~HasDanglingKey(sinks[i].out)

---------------------------------------------------------------------------
(* Compositions of cores by NewTee and the queries on the composed core.   *)
(* The core built so far is logger.core; trace holds the argument lists of *)
(* the NewTee calls made.                                                  *)

\* the largest number of NewTee calls in a row
MaxTeeSteps == 2

\* the cores compositions start from, each with its own sink
BaseCores == {KindCore("console", 1), KindCore("json", 2), KindCore("plain", 3)}

\* the argument lists of a NewTee call: none, one or two cores, each a base
\* core or the core built so far
TeeArgs(cur) ==
    {<<>>} \cup {<<x>> : x \in BaseCores \cup {cur}}
           \cup {<<x, y>> : x \in BaseCores \cup {cur}, y \in BaseCores \cup {cur}}

\* the levels Enabled is asked about: the legal range and two values on
\* each side of it
ProbeLevels == (_minLevel - 2)..(_maxLevel + 2)

\* every sink ends its calls the same way
TeeModes == {[i \in 1..NumSinks |-> m] : m \in SinkModes}

InitTee ==
    /\ NoThreads
    /\ NoLoggers
    /\ logger = New(NewTee(<<>>))
    /\ sinks = [i \in 1..Cardinality(BaseCores) |-> FreshSink]
    /\ trace = <<>>
    /\ call = [fn |-> "none"]
    /\ ret = Pending

\* core = NewTee(cores...)
TeeCompose ==
    /\ ret = Pending /\ Len(trace) < MaxTeeSteps
    /\ \E args \in TeeArgs(logger.core) :
          /\ logger' = New(NewTee(args))
          /\ trace' = Append(trace, args)
    /\ UNCHANGED <<call, ret, sinks>>
    /\ UNCHANGED concVars
    /\ UNCHANGED withVars

\* core.Enabled(lvl) for every probed level
TeeEnabled ==
    /\ ret = Pending /\ trace # <<>>
    /\ call' = [fn |-> "Core.Enabled"]
    /\ ret' = [state |-> "done",
               enabled |-> [lvl \in ProbeLevels |-> CoreEnabled(logger.core, lvl)]]
    /\ UNCHANGED <<logger, sinks, trace>>
    /\ UNCHANGED concVars
    /\ UNCHANGED withVars

\* core.Write(e) and core.Sync() on the composed core
TeeWrite ==
    /\ ret = Pending /\ trace # <<>>
    /\ \E modes \in TeeModes, lvl \in {InfoLevel, ErrorLevel} :
          \E r \in {CoreCall("Write", logger.core,
                             [Level |-> lvl, Time |-> UtcTime, Message |-> Str_msg,
                              Fields |-> <<>>, LoggerName |-> <<>>, Ctx |-> <<>>,
                              Caller |-> NoCaller],
                             sinks, <<>>, modes)} :
              /\ call' = [fn |-> "Core.Write", lvl |-> lvl, modes |-> modes]
              /\ ret' = [state |-> "done", err |-> r.err, calls |-> Len(r.trace)]
              /\ sinks' = r.sinks
    /\ UNCHANGED <<logger, trace>>
    /\ UNCHANGED concVars
    /\ UNCHANGED withVars

TeeSync ==
    /\ ret = Pending /\ trace # <<>>
    /\ \E modes \in TeeModes :
          \E r \in {CoreCall("Sync", logger.core, NoCaller, sinks, <<>>, modes)} :
              /\ call' = [fn |-> "Core.Sync", modes |-> modes]
              /\ ret' = [state |-> "done", err |-> r.err, calls |-> Len(r.trace)]
              /\ sinks' = r.sinks
    /\ UNCHANGED <<logger, trace>>
    /\ UNCHANGED concVars
    /\ UNCHANGED withVars

NextTee == TeeCompose \/ TeeEnabled \/ TeeWrite \/ TeeSync

SpecTee == InitTee /\ [][NextTee]_vars

---------------------------------------------------------------------------
(* Claims about NewTee and Enabled, checked under SpecTee.                 *)

\* the arguments of the last NewTee call
LastArgs == trace[Len(trace)]

\* the argument list with the children of every fan-out in place of the
\* fan-out
RECURSIVE Inlined(_)
Inlined(args) ==
    IF args = <<>> THEN <<>>
    ELSE LET last == args[Len(args)]
         IN  Inlined(SubSeq(args, 1, Len(args) - 1))
             \o (IF last.kind = "multi" THEN last.cores ELSE <<last>>)

\* C11: NewTee() is a no-op core (Write and Sync return nil and reach no
\* sink, Enabled is false for every level), NewTee(c) is c itself, and a
\* fan-out holds the children of its arguments inlined in order, never a
\* fan-out.
C11_TeeShapes ==
    trace # <<>> =>
        /\ Len(LastArgs) = 0 => logger.core = nopCore
        /\ Len(LastArgs) = 1 => logger.core = LastArgs[1]
        /\ Len(LastArgs) >= 2 =>
              /\ logger.core.kind = "multi"
              /\ logger.core.cores = Inlined(LastArgs)
        /\ logger.core.kind = "multi" =>
              \A i \in 1..Len(logger.core.cores) : logger.core.cores[i].kind # "multi"
        /\ (logger.core.kind = "nop" /\ ret # Pending) =>
              /\ call.fn = "Core.Enabled" => \A lvl \in ProbeLevels : ~ret.enabled[lvl]
              /\ call.fn \in {"Core.Write", "Core.Sync"} =>
                    /\ ret.err = Nil
                    /\ \A i \in 1..NumSinks : sinks[i] = FreshSink

\* a fan-out built from a fan-out and a base core: three children, the first
\* two those of the inner fan-out
C11_Witness ==
    /\ Len(trace) = 2
    /\ Len(LastArgs) = 2 /\ LastArgs[1].kind = "multi" /\ LastArgs[2].kind = "io"
    /\ logger.core.kind = "multi" /\ Len(logger.core.cores) = 3
    /\ logger.core.cores[1] = LastArgs[1].cores[1]

\* C12: for a fan-out and every level L of the legal range, Enabled(L) is
\* true iff one of its children reports Enabled(L), and the index L + 1 of
\* the lookup lies inside the table of _maxLevel + 2 slots.
C12_EnabledTable ==
    (call.fn = "Core.Enabled" /\ ret # Pending /\ logger.core.kind = "multi") =>
        /\ DOMAIN logger.core.levelsEnabled = 0..(_maxLevel + 1)
        /\ \A lvl \in Levels :
              /\ lvl + 1 \in DOMAIN logger.core.levelsEnabled
              /\ ret.enabled[lvl] <=>
                    \E i \in 1..Len(logger.core.cores) : CoreEnabled(logger.core.cores[i], lvl)

\* a fan-out of an Error-level and a Warn-level core: Warn is enabled by the
\* second child only, Info by none
C12_Witness ==
    /\ call.fn = "Core.Enabled" /\ ret # Pending /\ logger.core.kind = "multi"
    /\ logger.core.cores = <<KindCore("json", 2), KindCore("plain", 3)>>
    /\ ret.enabled[WarnLevel] /\ ~ret.enabled[InfoLevel]

\* C13: for every core and every level below the minimum or above the
\* maximum level, Enabled returns false.
C13_OutOfRangeDisabled ==
    (call.fn = "Core.Enabled" /\ ret # Pending) =>
        \A lvl \in ProbeLevels : (lvl < _minLevel \/ lvl > _maxLevel) => ~ret.enabled[lvl]

\* Enabled was asked of a fan-out that enables every legal level, and of a
\* level above the maximum
C13_Witness ==
    /\ call.fn = "Core.Enabled" /\ ret # Pending /\ logger.core.kind = "multi"
    /\ ret.enabled[_maxLevel] /\ ret.enabled[_minLevel]
    /\ ~ret.enabled[_maxLevel + 1] /\ ~ret.enabled[_minLevel - 1]


\* ---------------------------------------------------------------------
\* Goroutines: the Builder pool and the locked writer
\* ---------------------------------------------------------------------

\* the goroutines of a configuration
MaxThreads == 2

Threads == 1..MaxThreads

\* Lock: a writer that is a lockedWriter already is returned as it is
IsLocked(w) == "mu" \in DOMAIN w

Lock(w) ==
    IF IsLocked(w)
    THEN w
    ELSE [mu |-> w.id, w |-> w, sync |-> getSyncFunc(w), id |-> w.id, hook |-> TRUE,
          joint |-> w.joint]

\* what a goroutine runs: Core.Write of an entry at a level, the writer's
\* Sync, or Error() of a multiError
ThreadOps ==
    << [fn |-> "Write", lvl |-> InfoLevel],
       [fn |-> "Write", lvl |-> ErrorLevel],
       [fn |-> "Sync", lvl |-> InfoLevel],
       [fn |-> "Error", lvl |-> InfoLevel] >>

\* the entry goroutine t writes: each has its own message
ThreadEntry(t) ==
    [Level |-> threads[t].op.lvl, Time |-> UtcTime, Message |-> <<"m", DigitChar(t)>>,
     Fields |-> <<>>, LoggerName |-> <<>>, Ctx |-> <<>>, Caller |-> NoCaller]

\* the multiError whose text the goroutines ask for
TheMultiError == MultiError(<<Err("write", 1), Err("sync", 1)>>)

\* Error() of a plain error
ErrorString(e) == <<e.id[1], DigitChar(e.id[2])>>

\* writeSingleline: the items' texts, "; " between them
RECURSIVE writeSingleline(_, _, _)
writeSingleline(b, errors, first) ==
    IF errors = <<>>
    THEN b
    ELSE writeSingleline((IF first THEN b ELSE b \o <<";", " ">>) \o ErrorString(Head(errors)),
                         Tail(errors), FALSE)

\* builderPool.Get hands out a Builder and keeps it among the free ones
PoolGetKeepFree(p, id) == [p EXCEPT !.made = IF id > @ THEN id ELSE @]

\* builderPool.Get: a free Builder, taken out of the pool, or a new one
PoolGet(p, id) == [free |-> p.free \ {id}, made |-> IF id > p.made THEN id ELSE p.made]

\* the Builders Get may hand out: any free one, or one New makes
PoolChoices(p) == p.free \cup (IF p.made < MaxThreads THEN {p.made + 1} ELSE {})

\* Builder.Reset
Reset(buf) == SubSeq(buf, 1, 0)

\* a core on its own, or a fan-out whose children write to the same writer
SharingCores(w) ==
    { <<NewCore([kind |-> "console", flags |-> 0], w, DebugLevel)>>,
      <<NewCore([kind |-> "console", flags |-> 0], w, DebugLevel),
        NewCore([kind |-> "json", flags |-> 0], w, DebugLevel)>> }

\* the cores a Write on the logger's core reaches, in order
Children(c) == IF c.kind = "multi" THEN c.cores ELSE <<c>>

\* the child core goroutine t is writing to
Child(t) == Children(logger.core)[threads[t].i]

At(t, pc) == threads[t].pc = pc

Goto(t, pc) == [threads EXCEPT ![t].pc = pc]

\* the halves in which the underlying writer takes the bytes it is given
FirstHalf(p) == SubSeq(p, 1, Len(p) \div 2)

SecondHalf(p) == SubSeq(p, Len(p) \div 2 + 1, Len(p))

\* goroutines are interchangeable: their operations are drawn in the
\* order of ThreadOps; the fan-out is written to below ErrorLevel
OpsInOrder(f) ==
    \A t \in 1..(MaxThreads - 1) : \E j, k \in DOMAIN ThreadOps :
        j <= k /\ f[t].op = ThreadOps[j] /\ f[t + 1].op = ThreadOps[k]

InitThreads ==
    /\ \E w \in {FileSink(1), PlainSink(1)} :
         /\ lock = [holder |-> 0, writer |-> Lock(Lock(w))]
         /\ logger \in {New(NewTee(cs)) : cs \in SharingCores(Lock(w))}
    /\ threads \in {f \in [Threads -> {[op |-> ThreadOps[j], pc |-> "start", i |-> 1, b |-> 0,
                                        result |-> Pending] : j \in DOMAIN ThreadOps}] :
                        OpsInOrder(f)}
    /\ logger.core.kind = "multi" => \A t \in Threads : threads[t].op.lvl < ErrorLevel
    /\ NoLoggers
    /\ pool = [free |-> {}, made |-> 0]
    /\ builders = [id \in Threads |-> <<>>]
    /\ sinks = <<FreshSink>>
    /\ call = [fn |-> "go"]
    /\ ret = Pending
    /\ trace = <<>>

\* b := getBuilder()
GetBuilder(t) ==
    /\ At(t, "start")
    /\ threads[t].op.fn \in {"Write", "Error"}
    /\ \E id \in PoolChoices(pool) :
         /\ pool' = PoolGet(pool, id)
         /\ builders' = [builders EXCEPT ![id] = Reset(@)]
         /\ threads' = [threads EXCEPT ![t].pc = "got", ![t].b = id]
    /\ UNCHANGED <<logger, call, ret, sinks, trace, lock>>
    /\ UNCHANGED withVars

\* c.enc.Encode(b, e)
EncodeEntry(t) ==
    /\ At(t, "got")
    /\ threads[t].op.fn = "Write"
    /\ \E r \in {Encode(Child(t).enc, builders[threads[t].b], ThreadEntry(t))} :
         builders' = [builders EXCEPT ![threads[t].b] = r.buf]
    /\ threads' = Goto(t, "encoded")
    /\ UNCHANGED <<logger, call, ret, sinks, trace, pool, lock>>
    /\ UNCHANGED withVars

\* lockedWriter.Write calls the underlying writer without the mutex
LockWriteNoMutex(t) ==
    /\ At(t, "encoded")
    /\ sinks' = [sinks EXCEPT ![1].out = @ \o FirstHalf(builders[threads[t].b])]
    /\ threads' = Goto(t, "halfway")
    /\ UNCHANGED <<logger, call, ret, trace, pool, builders, lock>>
    /\ UNCHANGED withVars

\* lockedWriter.Write: s.Lock(), then s.w.Write(bs), of which the
\* underlying writer takes the first bytes
LockWrite(t) ==
    /\ At(t, "encoded")
    /\ lock.holder = 0
    /\ lock' = [lock EXCEPT !.holder = t]
    /\ sinks' = [sinks EXCEPT ![1].out = @ \o FirstHalf(builders[threads[t].b])]
    /\ threads' = Goto(t, "halfway")
    /\ UNCHANGED <<logger, call, ret, trace, pool, builders>>
    /\ UNCHANGED withVars

\* s.w.Write(bs): the underlying writer takes the rest and returns, then
\* s.Unlock(); ioCore.Write goes on to flush at ErrorLevel and above
WriteRest(t) ==
    /\ At(t, "halfway")
    /\ sinks' = [sinks EXCEPT ![1].out = @ \o SecondHalf(builders[threads[t].b]),
                              ![1].writes = @ + 1]
    /\ trace' = Append(trace, <<t, threads[t].i>>)
    /\ lock' = [lock EXCEPT !.holder = 0]
    /\ threads' = Goto(t, IF threads[t].op.lvl >= ErrorLevel /\ Child(t).sync
                          THEN "sync" ELSE "put")
    /\ UNCHANGED <<logger, call, ret, pool, builders>>
    /\ UNCHANGED withVars

\* where a call of lockedWriter.Sync starts, and where it returns to
BeforeSync(t) == IF threads[t].op.fn = "Sync" THEN "start" ELSE "sync"

AfterSync(t) ==
    IF threads[t].op.fn = "Sync"
    THEN [threads EXCEPT ![t].pc = "done", ![t].result = [val |-> Nil, alias |-> 0]]
    ELSE Goto(t, "put")

\* lockedWriter.Sync of a writer without a flush hook
SyncNone(t) ==
    /\ At(t, BeforeSync(t))
    /\ threads[t].op.fn \in {"Sync", "Write"}
    /\ ~lock.writer.sync
    /\ threads' = AfterSync(t)
    /\ UNCHANGED <<logger, call, ret, sinks, trace, pool, builders, lock>>
    /\ UNCHANGED withVars

\* lockedWriter.Sync enters the flush hook without the mutex
LockSyncNoMutex(t) ==
    /\ At(t, BeforeSync(t))
    /\ threads[t].op.fn \in {"Sync", "Write"}
    /\ lock.writer.sync
    /\ threads' = Goto(t, "syncing")
    /\ UNCHANGED <<logger, call, ret, sinks, trace, pool, builders, lock>>
    /\ UNCHANGED withVars

\* lockedWriter.Sync: s.Lock()
LockSync(t) ==
    /\ At(t, BeforeSync(t))
    /\ threads[t].op.fn \in {"Sync", "Write"}
    /\ lock.writer.sync
    /\ lock.holder = 0
    /\ lock' = [lock EXCEPT !.holder = t]
    /\ threads' = Goto(t, "syncing")
    /\ UNCHANGED <<logger, call, ret, sinks, trace, pool, builders>>
    /\ UNCHANGED withVars

\* s.sync(), then s.Unlock() and return
SyncHook(t) ==
    /\ At(t, "syncing")
    /\ sinks' = [sinks EXCEPT ![1].syncs = @ + 1]
    /\ lock' = [lock EXCEPT !.holder = 0]
    /\ threads' = AfterSync(t)
    /\ UNCHANGED <<logger, call, ret, trace, pool, builders>>
    /\ UNCHANGED withVars

\* merr.writeSingleline(b)
WriteSingleline(t) ==
    /\ At(t, "got")
    /\ threads[t].op.fn = "Error"
    /\ builders' = [builders EXCEPT
                      ![threads[t].b] = writeSingleline(@, TheMultiError.errors, TRUE)]
    /\ threads' = Goto(t, "filled")
    /\ UNCHANGED <<logger, call, ret, sinks, trace, pool, lock>>
    /\ UNCHANGED withVars

\* the text Error() returns is the Builder's bytes themselves
ErrorResultString(id, buf) == [val |-> buf, alias |-> id]

\* string(b.Bytes()): a copy of the Builder's bytes
ErrorResult(id, buf) == [val |-> buf, alias |-> 0]

\* result := string(b.Bytes())
CopyResult(t) ==
    /\ At(t, "filled")
    /\ threads' = [threads EXCEPT
                     ![t].pc = "put",
                     ![t].result = ErrorResult(threads[t].b, builders[threads[t].b])]
    /\ UNCHANGED <<logger, call, ret, sinks, trace, pool, builders, lock>>
    /\ UNCHANGED withVars

\* putBuilder(b), deferred in ioCore.Write, and return; multiCore.Write
\* goes on with its next child
PutBuilder(t) ==
    /\ At(t, "put")
    /\ pool' = [pool EXCEPT !.free = @ \cup {threads[t].b}]
    /\ threads' =
         IF threads[t].op.fn = "Write" /\ threads[t].i < Len(Children(logger.core))
         THEN [threads EXCEPT ![t].pc = "start", ![t].b = 0, ![t].i = @ + 1]
         ELSE [threads EXCEPT
                 ![t].pc = "done", ![t].b = 0,
                 ![t].result = IF threads[t].op.fn = "Write"
                               THEN [val |-> Nil, alias |-> 0] ELSE @]
    /\ UNCHANGED <<logger, call, ret, sinks, trace, builders, lock>>
    /\ UNCHANGED withVars

NextThreads ==
    \E t \in Threads :
        \/ GetBuilder(t)
        \/ EncodeEntry(t)
        \/ LockWrite(t)
        \/ WriteRest(t)
        \/ SyncNone(t)
        \/ LockSync(t)
        \/ SyncHook(t)
        \/ WriteSingleline(t)
        \/ CopyResult(t)
        \/ PutBuilder(t)

SpecThreads == InitThreads /\ [][NextThreads]_vars

\* the goroutines that hold a Builder between getBuilder and putBuilder
Holders(id) == {t \in Threads : threads[t].b = id}

\* the text Error() has to return
TheErrorText == writeSingleline(getBuilder, TheMultiError.errors, TRUE)

\* C14: under every interleaving of ioCore.Write and multiError.Error a
\* pooled Builder is held by at most one operation between getBuilder and
\* putBuilder and is not free meanwhile, a Builder just handed out has
\* length 0, and what an operation returned shares no storage with a
\* Builder that was put back (Error() returns its text intact).
C14_PooledBuilderExclusive ==
    /\ \A id \in DOMAIN builders :
         /\ Cardinality(Holders(id)) <= 1
         /\ Holders(id) # {} => id \notin pool.free
    /\ \A t \in DOMAIN threads :
         /\ threads[t].op.fn # "Sync" /\ threads[t].pc \notin {"start", "done"}
              => threads[t].b # 0
         /\ At(t, "got") => Len(builders[threads[t].b]) = 0
         /\ At(t, "done") =>
              /\ threads[t].result.alias = 0
              /\ threads[t].op.fn = "Error" => threads[t].result.val = TheErrorText

\* a goroutine was handed the Builder another one used and put back,
\* while the pool never made a second one
C14_Witness ==
    \E t, u \in DOMAIN threads :
        /\ At(t, "got") /\ threads[t].op.fn = "Error"
        /\ At(u, "done") /\ threads[u].op.fn = "Write"
        /\ pool.made = 1

\* the line child i of the logger's core renders for goroutine t's entry
Line(t, i) == Encode(Children(logger.core)[i].enc, getBuilder, ThreadEntry(t)).buf

\* the writes that returned from the underlying writer, as <<goroutine,
\* child>>: all those of the children before the current one, and the
\* current one's once past it
WritesDone(t) ==
    IF threads[t].op.fn # "Write" THEN {}
    ELSE {<<t, k>> : k \in 1..(IF threads[t].pc \in {"start", "got", "encoded", "halfway"}
                               THEN threads[t].i - 1 ELSE threads[t].i)}

AllWritesDone == UNION {WritesDone(t) : t \in DOMAIN threads}

Midway == {t \in DOMAIN threads : At(t, "halfway")}

\* the lines of the writes ws, one after the other
RECURSIVE Lines(_)
Lines(ws) == IF ws = <<>> THEN <<>> ELSE Line(Head(ws)[1], Head(ws)[2]) \o Lines(Tail(ws))

\* C15: when goroutines write concurrently to one core, or to a fan-out
\* whose children share the writer, and the writer is wrapped by Lock, the
\* underlying writer holds at every moment the rendered lines of the writes
\* that returned, each whole and exactly once, followed by the first
\* bytes of at most one write in progress: no two entries' bytes
\* interleave, and none is lost or written twice.
C15_LinesContiguous ==
    threads # <<>> =>
        /\ Cardinality(Midway) <= 1
        /\ {trace[k] : k \in DOMAIN trace} = AllWritesDone
        /\ Len(trace) = Cardinality(AllWritesDone)
        /\ sinks[1].writes = Len(trace)
        /\ \E tl \in IF Midway = {} THEN {<<>>}
                     ELSE {FirstHalf(Line(t, threads[t].i)) : t \in Midway} :
               sinks[1].out = Lines(trace) \o tl

\* a goroutine is inside the underlying writer with half of the line of
\* the fan-out's second child written while another one, its line
\* rendered, waits for the mutex
C15_Witness ==
    \E t, u \in DOMAIN threads :
        /\ At(t, "halfway") /\ threads[t].i = 2
        /\ At(u, "encoded")
        /\ sinks[1].writes >= 2

\* the goroutines inside the wrapped writer, between Lock and Unlock of the
\* lockedWriter's mutex: in its Write or in its flush hook
Inside == {t \in DOMAIN threads : threads[t].pc \in {"halfway", "syncing"}}

\* C16: for a writer returned by Lock, under every interleaving of Write
\* and Sync calls at most one call is inside the wrapped writer, the mutex
\* is held exactly while a call is between its Lock and its Unlock (so it
\* is free once every call has returned), and Lock of a locked writer is
\* that writer: the wrapped writer is never a lockedWriter itself.
C16_LockedWriterExclusive ==
    threads # <<>> =>
        /\ Cardinality(Inside) <= 1
        /\ lock.holder = 0 <=> Inside = {}
        /\ lock.holder # 0 => Inside = {lock.holder}
        /\ IsLocked(lock.writer) /\ ~IsLocked(lock.writer.w)
        /\ Lock(lock.writer) = lock.writer

\* a Sync call is inside the flush hook while a Write call waits for the
\* mutex, after an earlier Write released it
C16_Witness ==
    \E t, u \in DOMAIN threads :
        /\ At(t, "syncing") /\ threads[t].op.fn = "Sync"
        /\ At(u, "encoded")
        /\ sinks[1].writes >= 1


---------------------------------------------------------------------------
(* The encoders on their own: one Encode call on an empty Builder.         *)

\* every combination of the encoder flags
EncFlagSets ==
    { d + t + m + lf + sf + u :
        d \in {0, Ldate}, t \in {0, Ltime}, m \in {0, Lmicroseconds},
        lf \in {0, Llongfile}, sf \in {0, Lshortfile}, u \in {0, LUTC} }

\* a message that holds a line feed
Str_twoLines == <<"a", NL, "b">>

EncEntries ==
    { [Level |-> lvl, Time |-> tm, Message |-> msg, Fields |-> fs,
       LoggerName |-> nm, Ctx |-> ctx, Caller |-> cl] :
      lvl \in {InfoLevel, ErrorLevel}, tm \in {UtcTime, WestTime, EastTime},
      msg \in {Str_msg, Str_twoLines},
      fs \in {<<>>, GoodFields, BadFields}, nm \in {<<>>, <<"s", "v">>},
      ctx \in {<<>>, <<F(<<"n">>, IntVal(9000))>>}, cl \in {NoCaller, TestCaller} }

EncodeCalls ==
    { [fn |-> "Encode", enc |-> [kind |-> k, flags |-> fl], e |-> e, b |-> getBuilder] :
      k \in {"console", "json"}, fl \in EncFlagSets, e \in EncEntries }

InitEncode ==
    /\ NoThreads
    /\ NoLoggers
    /\ logger = NoLogger
    /\ sinks = <<>>
    /\ trace = <<>>
    /\ call \in EncodeCalls
    /\ ret = Pending

\* consoleEncoder.Encode(b, e)
EncodeConsole ==
    /\ call.fn = "Encode" /\ call.enc.kind = "console"
    /\ ret = Pending
    /\ \E r \in {consoleEncode(call.enc.flags, call.b, call.e)} :
          ret' = [state |-> "done", buf |-> r.buf, err |-> r.err, panic |-> r.panic]
    /\ UNCHANGED <<logger, call, sinks, trace>>
    /\ UNCHANGED concVars
    /\ UNCHANGED withVars

\* jsonEncoder.Encode(b, e)
EncodeJSON ==
    /\ call.fn = "Encode" /\ call.enc.kind = "json"
    /\ ret = Pending
    /\ \E r \in {jsonEncode(call.enc.flags, call.b, call.e)} :
          ret' = [state |-> "done", buf |-> r.buf, err |-> r.err, panic |-> r.panic]
    /\ UNCHANGED <<logger, call, sinks, trace>>
    /\ UNCHANGED concVars
    /\ UNCHANGED withVars

NextEncode == EncodeConsole \/ EncodeJSON

SpecEncode == InitEncode /\ [][NextEncode]_vars

Encoded(kind) == Done("Encode") /\ call.enc.kind = kind

\* the parts, sep between each two of them
RECURSIVE Join(_, _)
Join(parts, sep) ==
    IF parts = <<>> THEN <<>>
    ELSE IF Len(parts) = 1 THEN parts[1]
    ELSE parts[1] \o sep \o Join(Tail(parts), sep)

\* each field as a member: key, ':' and value
FieldMembers(fs) == [i \in 1..Len(fs) |-> FieldAppendTo(<<>>, fs[i])]

CallerText(flags, e) ==
    callerFile(e.Caller.File, flags) \o <<":">> \o AppendInt(<<>>, e.Caller.Line)

\* the members of the object the JSON line is said to hold, in order
RefJsonMembers(flags, e) ==
    << <<"\"level\":", DQ>> \o CapitalString(e.Level) \o <<DQ>>,
       <<"\"time\":", DQ>> \o RefFormat(e.Time, Trfc3339Nano) \o <<DQ>> >>
    \o (IF e.LoggerName # <<>>
        THEN << <<"\"logger\":">> \o AppendHTMLQuote(<<>>, e.LoggerName) >> ELSE <<>>)
    \o (IF hasCaller(flags, e)
        THEN << <<"\"caller\":", DQ>> \o CallerText(flags, e) \o <<DQ>> >> ELSE <<>>)
    \o << <<"\"msg\":">> \o AppendHTMLQuote(<<>>, e.Message) >>
    \o FieldMembers(e.Ctx) \o FieldMembers(e.Fields)

RefJsonLine(flags, e) == <<"{">> \o Join(RefJsonMembers(flags, e), <<",">>) \o <<"}", NL>>

CountOf(c, str) == Cardinality({k \in 1..Len(str) : str[k] = c})

\* C17: the JSON encoder appends, for every entry and flag set, exactly one
\* line: '{', the members level, time, logger (iff the name is non-empty),
\* caller (iff a file flag is set and the caller is defined), msg, the
\* context fields and the call-site fields, one comma between each two,
\* every member with its value, then "}\n", its only line feed.
C17_JsonOneObjectLine ==
    Encoded("json") =>
        /\ ~ret.panic
        /\ ret.buf = call.b \o RefJsonLine(call.enc.flags, call.e)
        /\ ~HasDanglingKey(ret.buf)
        /\ CountOf(NL, ret.buf) = 1

\* the first line the console encoder is said to write, with ": " before
\* the message when sep holds, and the line of the fields
RefConsoleHead(flags, e) ==
    consoleString(e.Level) \o <<" ">>
    \o (IF timeFlags(flags) # 0
        THEN AppendTime(<<>>, IF HasBit(flags, LUTC) THEN UTC(e.Time) ELSE e.Time,
                        timeFlags(flags)).buf \o <<" ">>
        ELSE <<>>)
    \o Join((IF e.LoggerName # <<>> THEN <<e.LoggerName>> ELSE <<>>)
            \o (IF hasCaller(flags, e) THEN <<CallerText(flags, e)>> ELSE <<>>), <<":">>)

RefConsoleFields(e) ==
    IF Len(e.Ctx) > 0 \/ Len(e.Fields) > 0
    THEN <<" ", "-", " ", " ", "{">>
         \o Join(FieldMembers(e.Ctx) \o FieldMembers(e.Fields), <<",">>) \o <<"}", NL>>
    ELSE <<>>

RefConsole(flags, e, sep) ==
    RefConsoleHead(flags, e) \o (IF sep THEN <<":", " ">> ELSE <<>>) \o e.Message \o <<NL>>
    \o RefConsoleFields(e)

\* C18 as stated: the console encoder writes the level token, a space, the
\* timestamp and a space when a date or time flag is set, the name, the
\* caller, then ": " before the message in every line, the message and a
\* line feed, and the line of the fields iff there are any.
C18_SeparatorInEveryLine ==
    Encoded("console") =>
        /\ ~ret.panic
        /\ ret.buf = call.b \o RefConsole(call.enc.flags, call.e, TRUE)

\* C18: the console encoder writes the level token, a space, the timestamp
\* and a space when a date or time flag is set, the name when non-empty,
\* the caller when enabled and defined (':' between the two), then ": "
\* iff a name or a caller was written, the message and a line feed; the
\* line " -  {" fields "}\n" follows iff Ctx or Fields is non-empty, the
\* context fields first, one comma between each two fields.
C18_SeparatorAfterNameOrCaller ==
    Encoded("console") =>
        /\ ~ret.panic
        /\ ret.buf = call.b \o RefConsole(call.enc.flags, call.e,
                                          call.e.LoggerName # <<>>
                                          \/ hasCaller(call.enc.flags, call.e))

\* an entry without name and caller was rendered with a timestamp and both
\* kinds of fields: the message follows the timestamp's space directly
C18_Witness ==
    /\ Encoded("console") /\ ~ret.panic
    /\ call.e.LoggerName = <<>> /\ ~hasCaller(call.enc.flags, call.e)
    /\ timeFlags(call.enc.flags) # 0
    /\ Len(call.e.Ctx) > 0 /\ Len(call.e.Fields) > 0
    /\ ret.buf # call.b \o RefConsole(call.enc.flags, call.e, TRUE)


\* C19: a call of a level method of the Logger at PanicLevel ends in the
\* panic and one at FatalLevel in os.Exit(1), whether or not the level is
\* enabled; a call at DebugLevel..ErrorLevel returns; core.Write was
\* called, and had returned, exactly once when the level is enabled, and
\* not at all when it is disabled.
C19_LevelEndings ==
    Done("Logger.log") =>
        /\ ret.ending = (IF call.lvl = PanicLevel THEN "panic"
                         ELSE IF call.lvl = FatalLevel THEN "exit" ELSE "return")
        /\ ret.calls = (IF CoreEnabled(logger.core, call.lvl) THEN 1 ELSE 0)


---------------------------------------------------------------------------
(* Loggers derived by With.  A ctx is a Go slice: a backing array, named   *)
(* by its index in arrays, and a length; the nil slice has array 0.        *)

\* the Loggers of a configuration, the one made by New included
MaxLoggers == 3

NilSlice == [arr |-> 0, len |-> 0]

\* an element of a backing array beyond every slice's length
NoField == F(<<>>, IntVal(0))

\* the field a call adds to the Logger that becomes number k
FieldOf(k) == F(<<"k", DigitChar(k)>>, IntVal(k))

\* the elements of a slice
Elems(arrs, sl) == IF sl.arr = 0 THEN <<>> ELSE SubSeq(arrs[sl.arr], 1, sl.len)

Cap(arrs, sl) == IF sl.arr = 0 THEN 0 ELSE Len(arrs[sl.arr])

\* append(sl, fs...): in place when the capacity suffices, else into a new
\* array, whose capacity exceeds the need by slack; the result is the
\* slice and the arrays
GoAppend(arrs, sl, fs, slack) ==
    IF Len(fs) = 0 THEN [sl |-> sl, arrays |-> arrs]
    ELSE IF sl.len + Len(fs) <= Cap(arrs, sl)
    THEN [sl |-> [sl EXCEPT !.len = @ + Len(fs)],
          arrays |-> [arrs EXCEPT ![sl.arr] =
                         [k \in 1..Len(@) |->
                             IF k > sl.len /\ k <= sl.len + Len(fs) THEN fs[k - sl.len]
                             ELSE @[k]]]]
    ELSE [sl |-> [arr |-> Len(arrs) + 1, len |-> sl.len + Len(fs)],
          arrays |-> Append(arrs, Elems(arrs, sl) \o fs \o [k \in 1..slack |-> NoField])]

\* the options With is given
Named(str) == [opt |-> "Named", s |-> str, fs |-> <<>>, skip |-> 0]

Fields(fields) == [opt |-> "Fields", s |-> <<>>, fs |-> fields, skip |-> 0]

AddCaller == [opt |-> "AddCaller", s |-> <<>>, fs |-> <<>>, skip |-> 0]

AddCallerSkip(n) == [opt |-> "AddCallerSkip", s |-> <<>>, fs |-> <<>>, skip |-> n]

\* opt.apply(log): the Logger and the arrays afterwards
ApplyOpt(l, arrs, o, slack) ==
    CASE o.opt = "Named" ->
            [log |-> IF o.s = <<>> THEN l
                     ELSE IF l.name = <<>> THEN [l EXCEPT !.name = o.s]
                     ELSE [l EXCEPT !.name = @ \o <<".">> \o o.s],
             arrays |-> arrs]
      [] o.opt = "Fields" ->
            IF Len(o.fs) = 0 THEN [log |-> l, arrays |-> arrs]
            ELSE [log |-> [l EXCEPT !.ctx = GoAppend(arrs, l.ctx, o.fs, slack).sl],
                  arrays |-> GoAppend(arrs, l.ctx, o.fs, slack).arrays]
      [] o.opt = "AddCaller" -> [log |-> [l EXCEPT !.addCaller = TRUE], arrays |-> arrs]
      [] OTHER -> [log |-> [l EXCEPT !.callerSkip = @ + o.skip], arrays |-> arrs]

\* the copy shares the receiver's ctx
cloneSharingCtx(l, arrs, slack) == [log |-> l, arrays |-> arrs]

\* Logger.clone: a copy whose ctx is a slice of its own
clone(l, arrs, slack) ==
    [log |-> [l EXCEPT !.ctx = GoAppend(arrs, NilSlice, Elems(arrs, l.ctx), slack).sl],
     arrays |-> GoAppend(arrs, NilSlice, Elems(arrs, l.ctx), slack).arrays]

\* what a Logger is to its user: its name, the fields of its context, its
\* core and its caller settings
View(l, arrs) ==
    [name |-> l.name, ctx |-> Elems(arrs, l.ctx), core |-> l.core,
     addCaller |-> l.addCaller, callerSkip |-> l.callerSkip]

\* the option lists of the With call that makes Logger k
OptLists(k) ==
    { <<Named(<<"a">>)>>, <<Named(<<>>)>>, <<Fields(<<FieldOf(k)>>)>>,
      <<Fields(<<>>)>>, <<AddCaller>>, <<AddCallerSkip(1)>>,
      <<Named(<<"a">>), Fields(<<FieldOf(k)>>)>> }

\* the Logger a With call has to return: the receiver's view with the
\* options' effects, as values
RECURSIVE Wanted(_, _)
Wanted(v, opts) ==
    IF opts = <<>> THEN v
    ELSE Wanted(
            CASE Head(opts).opt = "Named" ->
                    [v EXCEPT !.name = IF Head(opts).s = <<>> THEN @
                                       ELSE IF @ = <<>> THEN Head(opts).s
                                       ELSE @ \o <<".">> \o Head(opts).s]
              [] Head(opts).opt = "Fields" -> [v EXCEPT !.ctx = @ \o Head(opts).fs]
              [] Head(opts).opt = "AddCaller" -> [v EXCEPT !.addCaller = TRUE]
              [] OTHER -> [v EXCEPT !.callerSkip = @ + Head(opts).skip],
            Tail(opts))

\* a Logger of the configuration: its fields, the options its With call
\* has still to apply, the Logger it was derived from, and the view it has
\* to have once returned
Made(l, todo, parent, want) == [log |-> l, todo |-> todo, parent |-> parent, want |-> want]

\* New(core, Fields(f)) or New(core): the first Logger
InitWith ==
    /\ NoThreads
    /\ logger = NoLogger
    /\ sinks = <<>>
    /\ trace = <<>>
    /\ call = [fn |-> "New"]
    /\ ret = Pending
    /\ globalL = 0
    /\ mw = <<>>
    /\ \E fs \in {<<>>, <<FieldOf(1)>>}, slack \in {0, 1} :
         \E r \in {ApplyOpt([New(nopCore) EXCEPT !.ctx = NilSlice], <<>>, Fields(fs),
                              slack)} :
             /\ arrays = r.arrays
             /\ loggers = <<Made(r.log, <<>>, 0, View(r.log, r.arrays))>>

\* c := l.clone() of a call l.With(opts...) on a Logger that was returned
WithClone ==
    /\ Len(loggers) < MaxLoggers
    /\ \E i \in DOMAIN loggers, slack \in {0, 1} :
         /\ loggers[i].todo = <<>>
         /\ \E opts \in OptLists(Len(loggers) + 1) :
              \E r \in {clone(loggers[i].log, arrays, slack)} :
                 /\ arrays' = r.arrays
                 /\ loggers' = Append(loggers,
                        Made(r.log, opts, i, Wanted(View(loggers[i].log, arrays), opts)))
                 /\ call' = [fn |-> "With", l |-> i, opts |-> opts]
    /\ UNCHANGED <<logger, ret, sinks, trace, globalL, mw>>
    /\ UNCHANGED concVars

\* opt.apply(c) for the next option of a With call; after the last one
\* the call returns c
WithApply ==
    /\ \E j \in DOMAIN loggers, slack \in {0, 1} :
         /\ loggers[j].todo # <<>>
         /\ \E r \in {ApplyOpt(loggers[j].log, arrays, Head(loggers[j].todo), slack)} :
              /\ arrays' = r.arrays
              /\ loggers' = [loggers EXCEPT ![j].log = r.log, ![j].todo = Tail(@)]
    /\ UNCHANGED <<logger, call, ret, sinks, trace, globalL, mw>>
    /\ UNCHANGED concVars

NextWith == WithClone \/ WithApply

SpecWith == InitWith /\ [][NextWith]_vars

\* the Loggers with(out) a With call at work on them
WithReturned(j) == loggers[j].todo = <<>>

\* the Loggers j is derived from, itself included
RECURSIVE Ancestors(_)
Ancestors(j) == IF j = 0 THEN {} ELSE {j} \cup Ancestors(loggers[j].parent)

HasField(j, f) == \E k \in 1..loggers[j].log.ctx.len : arrays[loggers[j].log.ctx.arr][k] = f

\* C20: With leaves its receiver unchanged: under every interleaving of
\* With calls on a Logger and on the Loggers derived from it, every Logger
\* that was returned has, and keeps, the name, context fields, core and
\* caller settings it was returned with (its receiver's, with the options
\* applied), and the field a call added is in the context of the Logger
\* that call made and of those derived from it only, never in its
\* parent's or a sibling's.
C20_WithLeavesReceiver ==
    \A j \in DOMAIN loggers :
        /\ WithReturned(j) => View(loggers[j].log, arrays) = loggers[j].want
        /\ \A k \in DOMAIN loggers :
              HasField(j, FieldOf(k)) => k \in Ancestors(j)

\* two Loggers derived from the same Logger, whose context has room behind
\* its fields, each with a field of its own added
C20_Witness ==
    \E i, j, k \in DOMAIN loggers :
        /\ j # k /\ loggers[j].parent = i /\ loggers[k].parent = i
        /\ WithReturned(j) /\ WithReturned(k)
        /\ loggers[i].log.ctx.len > 0
        /\ Cap(arrays, loggers[i].log.ctx) > loggers[i].log.ctx.len
        /\ HasField(j, FieldOf(j)) /\ HasField(k, FieldOf(k))


---------------------------------------------------------------------------
(* The global Logger.  Loggers are numbers: 0 is the one init() stores.    *)

\* the Loggers ReplaceGlobal is called with, besides the one of init()
GlobalArgs == 0..2

\* L(): globalL.Load()
L == globalL

InitGlobal ==
    /\ logger = NoLogger
    /\ sinks = <<>>
    /\ trace = <<>>
    /\ call = [fn |-> "init"]
    /\ ret = Pending
    /\ pool = [free |-> {}, made |-> 0]
    /\ builders = <<>>
    /\ lock = [holder |-> 0]
    /\ loggers = <<>> /\ arrays = <<>>
    /\ globalL = 0
    /\ mw = <<>>
    /\ threads \in [Threads -> {[x |-> x, pc |-> "start", prev |-> 0, before |-> 0, rprev |-> 0] :
                                x \in GlobalArgs}]

\* ReplaceGlobal(x): prev := L(); when prev == logger the call returns
\* here, with a restore function that does nothing
ReplaceLoad(t) ==
    /\ threads[t].pc = "start"
    /\ threads' = [threads EXCEPT ![t].prev = L,
                                  ![t].before = L,
                                  ![t].pc = IF L = threads[t].x THEN "returned" ELSE "loaded"]
    /\ trace' = IF L = threads[t].x THEN Append(trace, <<"call", t>>) ELSE trace
    /\ call' = [fn |-> "ReplaceGlobal", t |-> t]
    /\ UNCHANGED <<logger, ret, sinks, pool, builders, lock, loggers, arrays, globalL, mw>>

\* globalL.Store(logger), and return func() { ReplaceGlobal(prev) }
ReplaceStore(t) ==
    /\ threads[t].pc = "loaded"
    /\ globalL' = threads[t].x
    /\ threads' = [threads EXCEPT ![t].before = L, ![t].pc = "returned"]
    /\ trace' = Append(trace, <<"call", t>>)
    /\ call' = [fn |-> "ReplaceGlobal", t |-> t]
    /\ UNCHANGED <<logger, ret, sinks, pool, builders, lock, loggers, arrays, mw>>

\* the restore function of a call that stored: ReplaceGlobal(prev), up to
\* its prev := L(); it returns here when L() is prev already
RestoreLoad(t) ==
    /\ threads[t].pc = "returned"
    /\ threads[t].prev # threads[t].x
    /\ threads' = [threads EXCEPT ![t].rprev = L,
                                  ![t].pc = IF L = threads[t].prev THEN "restored"
                                            ELSE "restoring"]
    /\ trace' = IF L = threads[t].prev THEN Append(trace, <<"restore", t>>) ELSE trace
    /\ call' = [fn |-> IF L = threads[t].prev THEN "restore" ELSE "ReplaceGlobal", t |-> t]
    /\ UNCHANGED <<logger, ret, sinks, pool, builders, lock, loggers, arrays, globalL, mw>>

\* the restore function: globalL.Store(prev)
RestoreStore(t) ==
    /\ threads[t].pc = "restoring"
    /\ globalL' = threads[t].prev
    /\ threads' = [threads EXCEPT ![t].pc = "restored"]
    /\ trace' = Append(trace, <<"restore", t>>)
    /\ call' = [fn |-> "restore", t |-> t]
    /\ UNCHANGED <<logger, ret, sinks, pool, builders, lock, loggers, arrays, mw>>

\* the restore function of a call that found its argument global: func() {}
RestoreNothing(t) ==
    /\ threads[t].pc = "returned"
    /\ threads[t].prev = threads[t].x
    /\ threads' = [threads EXCEPT ![t].pc = "restored"]
    /\ trace' = Append(trace, <<"restore", t>>)
    /\ call' = [fn |-> "restore", t |-> t]
    /\ UNCHANGED <<logger, ret, sinks, pool, builders, lock, loggers, arrays, globalL, mw>>

NextGlobal ==
    \E t \in Threads :
        \/ ReplaceLoad(t)
        \/ ReplaceStore(t)
        \/ RestoreLoad(t)
        \/ RestoreStore(t)
        \/ RestoreNothing(t)

SpecGlobal == InitGlobal /\ [][NextGlobal]_vars

\* the calls returned in some order and then their restore functions
\* were run, each to its end, in the reverse order
RestoredInReverse ==
    /\ Len(trace) = 2 * MaxThreads
    /\ \A k \in 1..MaxThreads :
          /\ trace[k][1] = "call"
          /\ trace[2 * MaxThreads + 1 - k] = <<"restore", trace[k][2]>>

\* C21: under every interleaving of ReplaceGlobal calls, right after the
\* restore function a call returned has run, L() is the Logger that was
\* global immediately before that call took effect (before its Store),
\* and when the restore
\* functions were run in the reverse order of the calls the global Logger
\* is the initial one again.
C21_RestoreBringsBackPrevious ==
    /\ (call.fn = "restore" /\ threads[call.t].prev # threads[call.t].x)
          => L = threads[call.t].before
    /\ (call.fn = "restore" /\ RestoredInReverse) => L = 0

---------------------------------------------------------------------------
(* MultiWriter: one Write or Sync on a writer made of up to MaxWriters     *)
(* writers, each ending as its mode says.                                  *)

\* the largest number of writers listed in a MultiWriter call
MaxWriters == 3

IsMultiWriter(w) == "writers" \in DOMAIN w

RECURSIVE MultiWriterLoop(_, _, _)
\* the loop of MultiWriter over its arguments: a *multiWriter among them
\* contributes its writers and its syncs, any other writer itself and its
\* flush hook, if it has one
MultiWriterLoop(writers, allWriters, allSyncs) ==
    IF writers = <<>> THEN [writers |-> allWriters, syncs |-> allSyncs]
    ELSE LET w == Head(writers) IN
         IF IsMultiWriter(w)
         THEN MultiWriterLoop(Tail(writers), allWriters \o w.writers, allSyncs \o w.syncs)
         ELSE MultiWriterLoop(Tail(writers), Append(allWriters, w),
                              IF getSyncFunc(w) THEN Append(allSyncs, w) ELSE allSyncs)

MultiWriter(writers) == MultiWriterLoop(writers, <<>>, <<>>)

RECURSIVE multiWriterWrite(_, _, _, _, _, _, _)
\* multiWriter.Write(p): every writer of the list is written to, in list
\* order; an error is combined with those before it and the loop goes on;
\* a short write adds io.ErrShortWrite; n is the largest count returned
multiWriterWrite(writers, p, modes, sk, tr, n, err) ==
    IF writers = <<>> THEN [n |-> n, err |-> err, sinks |-> sk, trace |-> tr]
    ELSE LET w == Head(writers)
             r == SinkWrite(sk[w.id], w, p, modes[w.id])
             sk1 == [sk EXCEPT ![w.id] = r.sink]
             tr1 == Append(tr, <<"Write", w.id>>)
         IN  IF r.err # Nil
             THEN multiWriterWrite(Tail(writers), p, modes, sk1, tr1, n,
                                   combineErrors(err, r.err))
             ELSE multiWriterWrite(Tail(writers), p, modes, sk1, tr1,
                      IF r.n > n THEN r.n ELSE n,
                      IF r.n # Len(p) THEN combineErrors(err, Err("short write", 0)) ELSE err)

RECURSIVE multiWriterSync(_, _, _, _, _)
\* multiWriter.Sync(): every flush hook is called, the errors are combined
multiWriterSync(syncs, modes, sk, tr, err) ==
    IF syncs = <<>> THEN [err |-> err, sinks |-> sk, trace |-> tr]
    ELSE LET w == Head(syncs) IN
         multiWriterSync(Tail(syncs), modes, [sk EXCEPT ![w.id].syncs = @ + 1],
                         Append(tr, <<"Sync", w.id>>),
                         combineErrors(err, IF modes[w.id].s = "fail" THEN SyncError(w)
                                            ELSE Nil))

\* the writer number i of a MultiWriter call: with or without a flush hook
WriterKinds(i) == {FileSink(i), PlainSink(i), JointSink(i)}

\* the argument lists of MultiWriter: n writers, and the same with two
\* neighbours joined by a MultiWriter call of their own
MultiWriterArgs ==
    UNION { { ws : ws \in {x \in [1..n -> UNION {WriterKinds(i) : i \in 1..n}] :
                             \A i \in 1..n : x[i].id = i} }
            \cup
            { <<MultiWriter(SubSeq(ws, 1, 2))>> \o SubSeq(ws, 3, n) :
                  ws \in {x \in [1..n -> UNION {WriterKinds(i) : i \in 1..n}] :
                             n >= 2 /\ \A i \in 1..n : x[i].id = i} }
            \cup
            { SubSeq(ws, 1, n - 2) \o <<MultiWriter(SubSeq(ws, n - 1, n))>> :
                  ws \in {x \in [1..n -> UNION {WriterKinds(i) : i \in 1..n}] :
                             n >= 2 /\ \A i \in 1..n : x[i].id = i} }
          : n \in 1..MaxWriters }

\* the bytes of the one Write
Payload == <<"a", "b">>

InitMultiWriter ==
    /\ NoThreads
    /\ loggers = <<>> /\ arrays = <<>> /\ globalL = 0
    /\ logger = NoLogger
    /\ trace = <<>>
    /\ call = [fn |-> "MultiWriter"]
    /\ ret = Pending
    /\ \E args \in MultiWriterArgs :
          /\ mw = MultiWriter(args)
          /\ sinks = [i \in 1..Len(mw.writers) |-> FreshSink]

\* mw.Write(p)
MultiWrite ==
    /\ ret = Pending
    /\ \E modes \in [DOMAIN sinks -> SinkModes] :
         /\ call' = [fn |-> "Write", p |-> Payload, modes |-> modes]
         /\ \E r \in {multiWriterWrite(mw.writers, Payload, modes, sinks, trace, 0, Nil)} :
              /\ ret' = [state |-> "done", n |-> r.n, err |-> r.err]
              /\ sinks' = r.sinks
              /\ trace' = r.trace
    /\ UNCHANGED <<logger, loggers, arrays, globalL, mw>>
    /\ UNCHANGED concVars

\* mw.Sync()
MultiSync ==
    /\ ret = Pending
    /\ \E modes \in [DOMAIN sinks -> SinkModes] :
         /\ call' = [fn |-> "Sync", modes |-> modes]
         /\ \E r \in {multiWriterSync(mw.syncs, modes, sinks, trace, Nil)} :
              /\ ret' = [state |-> "done", n |-> 0, err |-> r.err]
              /\ sinks' = r.sinks
              /\ trace' = r.trace
    /\ UNCHANGED <<logger, loggers, arrays, globalL, mw>>
    /\ UNCHANGED concVars

NextMultiWriter == MultiWrite \/ MultiSync

SpecMultiWriter == InitMultiWriter /\ [][NextMultiWriter]_vars

\* the first writer of the list whose Write returned an error, or 0
FirstFailing ==
    LET bad == {i \in DOMAIN mw.writers : call.modes[mw.writers[i].id].w = "fail"}
    IN  IF bad = {} THEN 0 ELSE CHOOSE i \in bad : \A j \in bad : i <= j

\* C22: a Write of a MultiWriter writes to the listed writers in list
\* order, and when a listed writer returns an error the Write stops there
\* and returns that error: no writer after it in the list is written to.
C22_WriteStopsAtError ==
    call.fn = "Write" =>
        /\ \A k \in DOMAIN trace : trace[k] = <<"Write", mw.writers[k].id>>
        /\ FirstFailing # 0 =>
             /\ ret.err = WriteError(mw.writers[FirstFailing])
             /\ Len(trace) = FirstFailing
             /\ \A i \in DOMAIN mw.writers : i > FirstFailing => sinks[mw.writers[i].id].writes = 0

---------------------------------------------------------------------------
(* AppendQuote and AppendHTMLQuote on their own, against strconv.Quote.    *)

\* the longest string quoted
MaxQuoteLen == 2

QuoteChars == DOMAIN AsciiCode \cup NonAscii \cup {"a"}

QuoteStrings == UNION {[1..n -> QuoteChars] : n \in 0..MaxQuoteLen}

InitQuote ==
    /\ NoThreads
    /\ NoLoggers
    /\ logger = NoLogger
    /\ sinks = <<>>
    /\ trace = <<>>
    /\ ret = Pending
    /\ call \in [fn : {"AppendQuote", "AppendHTMLQuote"}, b : {<<>>, <<"x">>}, s : QuoteStrings]

\* b.AppendQuote(s)
DoAppendQuote ==
    /\ call.fn = "AppendQuote"
    /\ ret = Pending
    /\ ret' = [state |-> "done", buf |-> AppendQuote(call.b, call.s)]
    /\ UNCHANGED <<logger, call, sinks, trace>>
    /\ UNCHANGED concVars
    /\ UNCHANGED withVars

\* b.AppendHTMLQuote(s)
DoAppendHTMLQuote ==
    /\ call.fn = "AppendHTMLQuote"
    /\ ret = Pending
    /\ ret' = [state |-> "done", buf |-> AppendHTMLQuote(call.b, call.s)]
    /\ UNCHANGED <<logger, call, sinks, trace>>
    /\ UNCHANGED concVars
    /\ UNCHANGED withVars

NextQuote == DoAppendQuote \/ DoAppendHTMLQuote

SpecQuote == InitQuote /\ [][NextQuote]_vars

\* strconv.Quote for one character: quote and backslash are escaped with a
\* backslash; a printable rune is copied; the control characters have
\* their letter escapes (\a, \n, \r, \t) or \x and two hex digits, as DEL
\* and a byte that is not valid UTF-8 have; a rune that is not printable is
\* \u and four hex digits
RefQuoteChar(c) ==
    CASE c \in {BS, DQ} -> <<BS, c>>
      [] c = "\\x07" -> <<BS, "a">>
      [] c = NL -> <<BS, "n">>
      [] c = "\r" -> <<BS, "r">>
      [] c = "\t" -> <<BS, "t">>
      [] c = InvalidByte -> <<BS, "x", "f", "f">>
      [] c \in DOMAIN AsciiCode /\ (AsciiCode[c] < 32 \/ AsciiCode[c] = 127) ->
            <<BS, "x", _hex[(AsciiCode[c] \div 16) + 1], _hex[(AsciiCode[c] % 16) + 1]>>
      [] c \in {"U+2028", "U+2029", "U+0085"} ->
            <<BS, "u", _hex[(RuneCode[c] \div 4096) + 1], _hex[((RuneCode[c] \div 256) % 16) + 1],
              _hex[((RuneCode[c] \div 16) % 16) + 1], _hex[(RuneCode[c] % 16) + 1]>>
      [] OTHER -> <<c>>

RECURSIVE RefQuoteBody(_)
RefQuoteBody(str) ==
    IF str = <<>> THEN <<>> ELSE RefQuoteChar(Head(str)) \o RefQuoteBody(Tail(str))

RefQuote(str) == <<DQ>> \o RefQuoteBody(str) \o <<DQ>>

RECURSIVE HtmlEscaped(_)
\* a quoted string with every '<', '>' and '&' replaced by its \u00XX escape
HtmlEscaped(q) ==
    IF q = <<>> THEN <<>>
    ELSE (IF Head(q) \in {"<", ">", "&"} THEN EscapeOf(Head(q)) ELSE <<Head(q)>>)
            \o HtmlEscaped(Tail(q))

\* C23: for every string, with control characters, DEL, runes that are
\* not printable, invalid UTF-8 and the separators U+2028 and U+2029 in it,
\* AppendQuote appends exactly strconv.Quote of the string, and
\* AppendHTMLQuote appends the same but for '<', '>' and '&', escaped.
C23_QuoteIsStrconvQuote ==
    ret # Pending =>
        /\ call.fn = "AppendQuote" => ret.buf = call.b \o RefQuote(call.s)
        /\ call.fn = "AppendHTMLQuote" =>
              ret.buf = call.b \o HtmlEscaped(AppendQuote(<<>>, call.s))

---------------------------------------------------------------------------
(* AppendJSON, Field.appendTo and O.MarshalJSON on their own.              *)

\* the longest slice and the longest O
MaxSliceLen == 2

\* two values of every type with cases of its own in AppendJSON
ElemValues(elem) ==
    CASE elem = "string" -> {<<"a">>, <<"<", NL>>}
      [] elem = "bool" -> {TRUE, FALSE}
      [] elem \in IntTypes -> {0, 100}
      [] elem \in FloatTypes -> {0, 120}
      [] OTHER -> {<<0, 0>>, <<3, 4>>}

SliceTypes == {"string", "bool"} \cup IntTypes \cup FloatTypes \cup ComplexTypes

PtrTypes == SliceTypes

SliceValues ==
    {NilSliceVal(elem) : elem \in SliceTypes}
    \cup UNION { {SliceVal(elem, vs) : vs \in UNION {[1..n -> ElemValues(elem)] : n \in 0..MaxSliceLen}}
                 : elem \in SliceTypes }

PtrValues ==
    {NilPtr(elem) : elem \in PtrTypes}
    \cup UNION { {PtrVal(elem, v) : v \in ElemValues(elem)} : elem \in PtrTypes }

ScalarValues == UNION { {ScalarVal(elem, v) : v \in ElemValues(elem)} : elem \in PtrTypes }

\* the values of type O: up to MaxSliceLen fields, one of them an O itself
InnerFields == {F(<<"i">>, IntVal(45)), F(<<"s">>, StrVal(<<"c", DQ>>))}

OFields == InnerFields \cup {F(<<"o">>, OVal(<<f>>)) : f \in InnerFields}

Objects == UNION {[1..n -> OFields] : n \in 0..MaxSliceLen}

\* the values of type []O, nil or not
OsValues ==
    {[t |-> "Os", nil |-> TRUE, v |-> <<>>]}
    \cup {[t |-> "Os", nil |-> FALSE, v |-> os] :
             os \in UNION {[1..n -> {<<>>, <<F(<<"i">>, IntVal(45))>>}] : n \in 0..MaxSliceLen}}

JSONCalls ==
    {[fn |-> "AppendJSON", b |-> b, iv |-> iv] :
        b \in Prefixes, iv \in {UntypedNil} \cup ScalarValues \cup PtrValues \cup SliceValues}
    \cup {[fn |-> "Field.appendTo", b |-> b, f |-> F(<<"k">>, val)] :
        b \in Prefixes, val \in SliceValues \cup OsValues \cup {OVal(o) : o \in Objects}}
    \cup {[fn |-> "O.MarshalJSON", o |-> o] : o \in Objects}

InitJSON ==
    /\ NoThreads
    /\ NoLoggers
    /\ logger = NoLogger
    /\ sinks = <<>>
    /\ trace = <<>>
    /\ ret = Pending
    /\ call \in JSONCalls

\* b.AppendJSON(iv)
DoAppendJSON ==
    /\ call.fn = "AppendJSON"
    /\ ret = Pending
    /\ \E r \in {AppendJSON(call.b, call.iv)} :
          ret' = [state |-> "done", buf |-> r.buf, err |-> r.err, panic |-> r.panic]
    /\ UNCHANGED <<logger, call, sinks, trace>>
    /\ UNCHANGED concVars
    /\ UNCHANGED withVars

\* f.appendTo(b)
DoFieldAppendTo ==
    /\ call.fn = "Field.appendTo"
    /\ ret = Pending
    /\ ret' = [state |-> "done", buf |-> FieldAppendTo(call.b, call.f), err |-> Nil,
               panic |-> FALSE]
    /\ UNCHANGED <<logger, call, sinks, trace>>
    /\ UNCHANGED concVars
    /\ UNCHANGED withVars

\* O.MarshalJSON: a new Builder, '{', o.appendTo, and '{' once more
OMarshalJSON(o) == OAppendTo(<<"{">>, o, 1) \o <<"{">>

\* o.MarshalJSON()
DoMarshalJSON ==
    /\ call.fn = "O.MarshalJSON"
    /\ ret = Pending
    /\ ret' = [state |-> "done", buf |-> OMarshalJSON(call.o), err |-> Nil, panic |-> FALSE]
    /\ UNCHANGED <<logger, call, sinks, trace>>
    /\ UNCHANGED concVars
    /\ UNCHANGED withVars

NextJSON == DoAppendJSON \/ DoFieldAppendTo \/ DoMarshalJSON

SpecJSON == InitJSON /\ [][NextJSON]_vars

Null == <<"n", "u", "l", "l">>

\* len(v) of a slice value
SliceLen(val) == IF val.t = "Os" THEN Len(val.v) ELSE Len(Unbox(val.elem, val.vs))

\* what a field of key "k" starts with
KeyPart == <<DQ, "k", DQ, ":">>

\* C24: a field whose value is a slice (of bool, string, any integer,
\* float or complex type, or []O) is rendered as null when the slice is
\* nil, and as [] when it is empty but not nil ("" for a byte slice).
C24_NilSliceIsNull ==
    (call.fn = "Field.appendTo" /\ ret # Pending /\ call.f.Val.t \in {"slice", "Os"}) =>
        /\ ~ret.panic
        /\ call.f.Val.nil => ret.buf = call.b \o KeyPart \o Null
        /\ (~call.f.Val.nil /\ SliceLen(call.f.Val) = 0) =>
              ret.buf = call.b \o KeyPart \o
                  (IF call.f.Val.t = "slice" /\ call.f.Val.elem = "uint8"
                   THEN <<DQ, DQ>> ELSE <<"[", "]">>)

\* C25: AppendJSON appends null for an untyped nil and for a nil pointer
\* to a type it has a case for, without panicking, and for such a pointer
\* that is not nil it does what it does for the value pointed to.
C25_NilPointerIsNull ==
    (call.fn = "AppendJSON" /\ ret # Pending) =>
        /\ call.iv.t = "nil" => ~ret.panic /\ ret.buf = call.b \o Null
        /\ (call.iv.t = "ptr" /\ call.iv.nil) => ~ret.panic /\ ret.buf = call.b \o Null
        /\ (call.iv.t = "ptr" /\ ~call.iv.nil) =>
              \E r \in {AppendJSON(call.b, [t |-> "scalar", elem |-> call.iv.elem, v |-> call.iv.v])} :
                  ret.buf = r.buf /\ ret.err = r.err /\ ret.panic = r.panic

RECURSIVE Depth(_, _)
\* the number of '{' of a buffer that no '}' closes
Depth(buf, i) ==
    IF i = 0 THEN 0
    ELSE Depth(buf, i - 1) + (IF buf[i] = "{" THEN 1 ELSE IF buf[i] = "}" THEN -1 ELSE 0)

\* C29: O.MarshalJSON returns '{', the renderings of the fields joined by
\* commas, and '}': the bytes Field.appendTo writes after the key of a
\* field whose value is the same O, with as many '}' as '{'.
C29_MarshalJSONBalanced ==
    (call.fn = "O.MarshalJSON" /\ ret # Pending) =>
        /\ ret.buf = <<"{">> \o OAppendTo(<<>>, call.o, 1) \o <<"}">>
        /\ KeyPart \o ret.buf = FieldAppendTo(<<>>, F(<<"k">>, OVal(call.o)))
        /\ Depth(ret.buf, Len(ret.buf)) = 0

---------------------------------------------------------------------------
(* The precision flags of AppendTime, checked under SpecBuilder.           *)

\* a time of day is asked for: Ttime or one of the three precision flags
WantsClock(flag) ==
    HasBit(flag, Ttime) \/ HasBit(flag, Tmilliseconds)
        \/ HasBit(flag, Tmicroseconds) \/ HasBit(flag, Tnanoseconds)

\* the digits of the finest precision flag of the mask, 0 without one
FinestTier(flag) ==
    IF HasBit(flag, Tnanoseconds) THEN 9
    ELSE IF HasBit(flag, Tmicroseconds) THEN 6
    ELSE IF HasBit(flag, Tmilliseconds) THEN 3 ELSE 0

\* date, separator, HH:MM:SS, fraction and zone as the mask asks for them
RefTimeParts(t, flag, clock) ==
    (IF HasBit(flag, Tdate) THEN RefDate(t) ELSE <<>>)
    \o (IF HasBit(flag, Tdate) /\ clock
        THEN <<IF HasBit(flag, Ttimeprefix) THEN "T" ELSE " ">> ELSE <<>>)
    \o (IF clock THEN RefClock(t) ELSE <<>>)
    \o (IF clock /\ FinestTier(flag) > 0
        THEN RefFraction(t, FinestTier(flag), HasBit(flag, TnineFlag)) ELSE <<>>)
    \o (IF HasBit(flag, Tzone) THEN RefZone(t.off) ELSE <<>>)

\* C27: for every mask (the zone of the time east of UTC or not asked
\* for) AppendTime writes HH:MM:SS and the fraction of the finest
\* precision flag whenever Ttime or a precision flag is set, and the
\* separator between date and time exactly when Tdate is set and a time of
\* day is written.
C27_PrecisionFlagsUniform ==
    (Done("AppendTime") /\ (call.t.off >= 0 \/ ~HasBit(call.flag, Tzone))) =>
        /\ ~ret.panic
        /\ WantsClock(call.flag) => Appended = RefTimeParts(call.t, call.flag, TRUE)
        /\ ~WantsClock(call.flag) =>
              \E clock \in BOOLEAN : Appended = RefTimeParts(call.t, call.flag, clock)

---------------------------------------------------------------------------
(* callerFile on its own.                                                  *)

\* the longest file path
MaxPathLen == 3

PathChars == {"/", "d", "."}

Paths == UNION {[1..n -> PathChars] : n \in 0..MaxPathLen}

InitCallerFile ==
    /\ NoThreads
    /\ NoLoggers
    /\ logger = NoLogger
    /\ sinks = <<>>
    /\ trace = <<>>
    /\ ret = Pending
    /\ call \in [fn : {"callerFile"}, file : Paths, flags : EncFlagSets]

\* callerFile(file, flags)
DoCallerFile ==
    /\ ret = Pending
    /\ ret' = [state |-> "done", file |-> callerFile(call.file, call.flags)]
    /\ UNCHANGED <<logger, call, sinks, trace>>
    /\ UNCHANGED concVars
    /\ UNCHANGED withVars

SpecCallerFile == InitCallerFile /\ [][DoCallerFile]_vars

\* the positions of the '/' of a path
Slashes(file) == {i \in DOMAIN file : file[i] = "/"}

\* the final element of a path: what follows its last '/', or all of it
RefBase(file) ==
    IF Slashes(file) = {} THEN file
    ELSE SubSeq(file, (CHOOSE i \in Slashes(file) : \A j \in Slashes(file) : j <= i) + 1,
                Len(file))

\* C28: with Lshortfile in the flags callerFile returns what follows the
\* last '/' of the path, the whole path when it has none, also when the
\* only '/' is the first character; without Lshortfile it returns the path.
C28_ShortFileIsBase ==
    ret # Pending =>
        ret.file = IF HasBit(call.flags, Lshortfile) THEN RefBase(call.file) ELSE call.file

---------------------------------------------------------------------------
(* The zone of the timestamp, checked under SpecEncode.                    *)

\* the time an encoder with these flags is to render
ZonedTime(flags, e) == IF HasBit(flags, LUTC) THEN UTC(e.Time) ELSE e.Time

\* what a console line starts with when it has a timestamp
ConsoleStamp(flags, e) ==
    consoleString(e.Level) \o <<" ">>
    \o RefTimeParts(ZonedTime(flags, e), timeFlags(flags), WantsClock(timeFlags(flags)))
    \o <<" ">>

\* what a JSON line starts with
JsonStamp(flags, e) ==
    <<"{", "\"level\":", DQ>> \o CapitalString(e.Level) \o <<DQ, ",", "\"time\":", DQ>>
    \o RefTimeParts(ZonedTime(flags, e), Trfc3339Nano, TRUE) \o <<DQ>>

StartsWith(buf, head) == Len(buf) >= Len(head) /\ SubSeq(buf, 1, Len(head)) = head

\* C26: the timestamp of a line is the entry's time converted to UTC when
\* LUTC is set and the entry's time in its own zone when it is not, in the
\* console encoder's lines when Ldate or Ltime is set and in every line of
\* the JSON encoder (entries with a time east of UTC or in UTC).
C26_TimestampZone ==
    /\ (Encoded("console") /\ (HasBit(call.enc.flags, Ldate) \/ HasBit(call.enc.flags, Ltime)))
          => ~ret.panic /\ StartsWith(ret.buf, ConsoleStamp(call.enc.flags, call.e))
    /\ (Encoded("json") /\ call.e.Time.off >= 0)
          => ~ret.panic /\ StartsWith(ret.buf, JsonStamp(call.enc.flags, call.e))

---------------------------------------------------------------------------
(* combineErrors with the lists of the multiErrors as Go slices: a         *)
(* *multiError is [kind |-> "multi", errors |-> slice], its list lies in   *)
(* a backing array.                                                        *)

\* the largest number of combineErrors calls in a behaviour
MaxCombines == 3

\* the errors that do not come from combineErrors
PlainErrors == {Err("e", 1), Err("e", 2)}

\* me.errors, or the error itself
ItemsAt(arrs, e) == IF e.kind = "multi" THEN Elems(arrs, e.errors) ELSE <<e>>

\* an error with its list read out of the arrays
ViewError(arrs, e) == IF e.kind = "multi" THEN MultiError(Elems(arrs, e.errors)) ELSE e

\* a variant of combineErrors that appends a multiError as one entry
\* instead of its entries
combineErrorsNested(arrs, left, right, slack) ==
    IF left = Nil THEN [err |-> right, arrays |-> arrs]
    ELSE IF right = Nil THEN [err |-> left, arrays |-> arrs]
    ELSE LET r1 == GoAppend(Append(arrs, <<Nil, Nil>>),
                            [arr |-> Len(arrs) + 1, len |-> 0],
                            <<ViewError(arrs, left)>>, slack)
             r2 == GoAppend(r1.arrays, r1.sl, <<ViewError(arrs, right)>>, slack)
         IN  [err |-> [kind |-> "multi", id |-> <<"", 0>>, errors |-> r2.sl],
              arrays |-> r2.arrays]

\* combineErrors: eslice := make([]error, 0, 2), then the entries of left
\* and those of right are appended to it
combineErrorsAt(arrs, left, right, slack) ==
    IF left = Nil THEN [err |-> right, arrays |-> arrs]
    ELSE IF right = Nil THEN [err |-> left, arrays |-> arrs]
    ELSE LET r1 == GoAppend(Append(arrs, <<Nil, Nil>>),
                            [arr |-> Len(arrs) + 1, len |-> 0],
                            ItemsAt(arrs, left), slack)
             r2 == GoAppend(r1.arrays, r1.sl, ItemsAt(arrs, right), slack)
         IN  [err |-> [kind |-> "multi", id |-> <<"", 0>>, errors |-> r2.sl],
              arrays |-> r2.arrays]

\* the errors a call can be given: nil, a plain error, or one that an
\* earlier call returned
ErrorsSoFar == {Nil} \cup PlainErrors \cup {trace[k].err : k \in DOMAIN trace}

InitCombine ==
    /\ NoThreads
    /\ logger = NoLogger
    /\ sinks = <<>>
    /\ loggers = <<>>
    /\ globalL = 0
    /\ mw = <<>>
    /\ arrays = <<>>
    /\ trace = <<>>
    /\ call = [fn |-> "init"]
    /\ ret = Pending

\* err := combineErrors(left, right); trace keeps what was returned, what
\* it was made of, and its list as it was when it was returned
Combine ==
    /\ Len(trace) < MaxCombines
    /\ \E left \in ErrorsSoFar, right \in ErrorsSoFar, slack \in {0, 1} :
         \E r \in {combineErrorsAt(arrays, left, right, slack)} :
            /\ arrays' = r.arrays
            /\ call' = [fn |-> "combineErrors", left |-> left, right |-> right]
            /\ ret' = [state |-> "done", err |-> r.err]
            /\ trace' = Append(trace, [err |-> r.err, left |-> left, right |-> right,
                                       view |-> ViewError(r.arrays, r.err)])
    /\ UNCHANGED <<logger, sinks, loggers, globalL, mw>>
    /\ UNCHANGED concVars

SpecCombine == InitCombine /\ [][Combine]_vars

\* the list of the errors of a, b and c joined in this order, c last
JoinedRight(a, b, c) == ErrorItems(combineErrors(a, combineErrors(b, c)))

\* the same with a and b joined first
JoinedLeft(a, b, c) == ErrorItems(combineErrors(combineErrors(a, b), c))

\* C30: combineErrors(nil, e) = e and combineErrors(e, nil) = e; any other
\* result is a multiError of at least two entries, none of them a
\* multiError, the entries of left followed by those of right; joining
\* a, b, c gives the same list whichever two are joined first; and the
\* lists of the errors returned earlier stay as they were.
C30_CombineIsFlatJoin ==
    call.fn = "combineErrors" =>
        LET left == ViewError(arrays, call.left)
            right == ViewError(arrays, call.right)
            res == ViewError(arrays, ret.err)
        IN  /\ call.left = Nil => ret.err = call.right
            /\ call.right = Nil => ret.err = call.left
            /\ (call.left # Nil /\ call.right # Nil) =>
                  /\ res.kind = "multi"
                  /\ Len(res.errors) >= 2
                  /\ \A i \in DOMAIN res.errors : res.errors[i].kind = "err"
                  /\ res.errors = ErrorItems(left) \o ErrorItems(right)
            /\ \A k \in DOMAIN trace :
                  /\ ViewError(arrays, trace[k].err) = trace[k].view
                  /\ trace[k].err = call.left =>
                        ErrorItems(res) = JoinedRight(ViewError(arrays, trace[k].left),
                                                      ViewError(arrays, trace[k].right), right)
                  /\ trace[k].err = call.right =>
                        ErrorItems(res) = JoinedLeft(left, ViewError(arrays, trace[k].left),
                                                     ViewError(arrays, trace[k].right))

\* two multiErrors were joined, each made of two errors
C30_Witness ==
    /\ call.fn = "combineErrors"
    /\ call.left.kind = "multi" /\ call.right.kind = "multi"
    /\ Len(trace) = MaxCombines
    /\ Len(ViewError(arrays, ret.err).errors) = 4

====
